---- MODULE Spec2Model ----
(***************************************************************************)
(* Model of the translation request/cache coordinator of ai18n             *)
(* (src/src/core.js, class I18nClient): the expiring localStorage cache,   *)
(* the pending-request registry, translate, batchTranslate and clearCache. *)
(*                                                                         *)
(* Texts are sequences of UTF-16 char codes.  Storage keys and cache keys  *)
(* are sequences of string tokens whose concatenation is the JavaScript    *)
(* string ("i18n_", "en", ":", "es", ":", hex digits ...); language codes  *)
(* contain no ":" so String.startsWith is the prefix relation on tokens.   *)
(* One action is one run of JavaScript between two suspension points: the  *)
(* synchronous part of a call up to its first await on the network, or the *)
(* continuation that runs when the network call settles.                   *)
(***************************************************************************)
EXTENDS Integers, Sequences, FiniteSets, TLC

VARIABLES
    useLocalCache,          \* this.useLocalCache            (core.js:21)
    defaultTargetLanguage,  \* this.defaultTargetLanguage    (core.js:20)
    now,                    \* Date.now(), in milliseconds
    storage,                \* localStorage: storage key -> stored item
    pendingRequests,        \* this.pendingRequests: cache key -> index in net
    net,                    \* every fetch() issued so far, in order
    calls,                  \* every translate() call so far, in order
    batches,                \* every batchTranslate() call so far, in order
    clears,                 \* every clearCache() call so far, in order
    languageCalls,          \* every getLanguages() call so far, in order
    statusCalls             \* every checkJobStatus() call so far, in order

vars == <<useLocalCache, defaultTargetLanguage, now, storage,
          pendingRequests, net, calls, batches, clears, languageCalls, statusCalls>>

(***************************************************************************)
(* Bounds of the model.                                                    *)
(***************************************************************************)
MaxCalls == 2      \* translate() calls in one behaviour
MaxBatches == 1    \* batchTranslate() calls in one behaviour
MaxClears == 1     \* clearCache() calls in one behaviour
MaxTicks == 2      \* steps of the clock in one behaviour
MaxLanguageCalls == 2  \* getLanguages() calls in one behaviour
MaxStatusCalls == 2    \* checkJobStatus() calls in one behaviour
MaxOps == 3            \* calls of any operation in one behaviour of SpecFaulty,
                       \* SpecDisabled and SpecInFlight

(***************************************************************************)
(* Configuration and values.                                               *)
(***************************************************************************)
cacheTTL == 1                       \* config.cacheTTL, in seconds
defaultSourceLanguage == "en"       \* config.defaultSourceLanguage || "en"
NoLang == ""                        \* an absent (or empty, hence falsy) language option
TickMs == cacheTTL * 1000           \* the clock advances by one TTL

EmptyText == << >>                  \* ""
Undefined == << -1 >>               \* JavaScript undefined where a text is expected
Null == << -2 >>                    \* JavaScript null where a text is expected
TextA == << 65 >>                   \* "A"
TextAa == << 65, 97 >>              \* "Aa"
TextBB == << 66, 66 >>              \* "BB": same _simpleHash as "Aa"
Hola == << 72 >>                    \* a translation returned by the server
Salut == << 83 >>                   \* another translation returned by the server

NoError == "<absent>"               \* the result has no error field
NoJob == "<absent>"                 \* the response has no jobId field
TranslationFailed == "Translation failed"
TypeErrorLength == "Cannot read properties of undefined (reading 'length')"

\* a test that takes an absent text for a text
Falsy_onlyEmpty(x) == x = EmptyText

\* if (!x) for a text-valued x: undefined, null and "" are falsy
Falsy(x) == x = EmptyText \/ x = Undefined \/ x = Null

(***************************************************************************)
(* _simpleHash: hash = ((hash << 5) - hash + char) | 0 over the chars,     *)
(* then Math.abs(hash).toString(16).  The 32-bit value is kept as two      *)
(* 16-bit halves <<hi, lo>> so that the arithmetic is exact modulo 2^32.   *)
(***************************************************************************)
Half == 65536

HashStep(h, char) ==
    LET lo == h[2] * 31 + char
        hi == h[1] * 31 + (lo \div Half)
    IN  << hi % Half, lo % Half >>

RECURSIVE HashFold(_, _)
HashFold(h, str) ==
    IF str = << >> THEN h ELSE HashFold(HashStep(h, Head(str)), Tail(str))

\* Math.abs of the signed 32-bit value held in <<hi, lo>>
Abs32(h) ==
    IF h[1] < Half \div 2 THEN h
    ELSE << (Half - 1 - h[1]) + (IF h[2] = 0 THEN 1 ELSE 0), (Half - h[2]) % Half >>

HexDigit(d) ==
    CASE d = 0 -> "0" [] d = 1 -> "1" [] d = 2 -> "2" [] d = 3 -> "3"
      [] d = 4 -> "4" [] d = 5 -> "5" [] d = 6 -> "6" [] d = 7 -> "7"
      [] d = 8 -> "8" [] d = 9 -> "9" [] d = 10 -> "a" [] d = 11 -> "b"
      [] d = 12 -> "c" [] d = 13 -> "d" [] d = 14 -> "e" [] d = 15 -> "f"

\* n.toString(16) for 0 <= n < 65536, without leading zeros
RECURSIVE Hex(_)
Hex(n) == IF n < 16 THEN << HexDigit(n) >> ELSE Hex(n \div 16) \o << HexDigit(n % 16) >>

\* the four hex digits of 0 <= n < 65536, with leading zeros
Hex4(n) == << HexDigit(n \div 4096), HexDigit((n \div 256) % 16),
              HexDigit((n \div 16) % 16), HexDigit(n % 16) >>

SimpleHash(str) ==
    LET a == Abs32(HashFold(<< 0, 0 >>, str))
    IN  IF a[1] = 0 THEN Hex(a[2]) ELSE Hex(a[1]) \o Hex4(a[2])

\* `${sourceLanguage}:${targetLanguage}:${hash}`
GenerateCacheKey(sourceLanguage, targetLanguage, text) ==
    << sourceLanguage, ":", targetLanguage, ":" >> \o SimpleHash(text)

\* `i18n_${key}`
StorageKey(key) == << "i18n_" >> \o key

\* key.startsWith(prefix)
StartsWith(key, prefix) ==
    Len(key) >= Len(prefix) /\ SubSeq(key, 1, Len(prefix)) = prefix

(***************************************************************************)
(* The cache store over localStorage.  A stored item is either the JSON    *)
(* text of {value, expires} (kind "item") or a string that JSON.parse      *)
(* rejects or that another program wrote (kind "raw").                     *)
(***************************************************************************)
Item(value, expires) == [kind |-> "item", value |-> value, expires |-> expires]
Raw == [kind |-> "raw", value |-> Null, expires |-> 0]

Put(st, k, v) == [x \in DOMAIN st \cup {k} |-> IF x = k THEN v ELSE st[x]]
Remove(st, k) == [x \in DOMAIN st \ {k} |-> st[x]]

\* an expiry test that takes the instant of expiry for expired
IsExpired_inclusive(cacheItem, t) == cacheItem.expires <= t

\* cacheItem.expires < Date.now()
IsExpired(cacheItem, t) == cacheItem.expires < t

\* a save that stamps the entry with the time of the write
SaveToLocalCache_noTTL(st, key, value, t, quotaOk) ==
    IF quotaOk
    THEN Put(st, StorageKey(key), Item(value, t))
    ELSE st

\* _saveToLocalCache; quotaOk = FALSE is localStorage.setItem throwing
SaveToLocalCache(st, key, value, t, quotaOk) ==
    IF quotaOk
    THEN Put(st, StorageKey(key), Item(value, t + cacheTTL * 1000))
    ELSE st

\* a lookup that hands out a stored string it could not parse
GetFromLocalCache_unparsed(st, key, t) ==
    LET k == StorageKey(key) IN
    IF k \notin DOMAIN st THEN [value |-> Null, storage |-> st]
    ELSE IF st[k].kind = "raw" THEN [value |-> << 63 >>, storage |-> st]
    ELSE IF IsExpired(st[k], t) THEN [value |-> Null, storage |-> Remove(st, k)]
    ELSE [value |-> st[k].value, storage |-> st]

\* _getFromLocalCache: the value returned, and the storage it leaves; for a
\* string that JSON.parse rejects the catch block returns null
GetFromLocalCache(st, key, t) ==
    LET k == StorageKey(key) IN
    IF k \notin DOMAIN st THEN [value |-> Null, storage |-> st]
    ELSE IF st[k].kind = "raw" THEN [value |-> Null, storage |-> st]
    ELSE IF IsExpired(st[k], t) THEN [value |-> Null, storage |-> Remove(st, k)]
    ELSE [value |-> st[k].value, storage |-> st]

(***************************************************************************)
(* Results, network requests and server responses.                         *)
(***************************************************************************)
\* a TranslationResult; fromCache = FALSE and error = NoError are absent fields
Result(text, translated, fromCache, error) ==
    [text |-> text, translated |-> translated, fromCache |-> fromCache, error |-> error]

NoResult == Result(Undefined, FALSE, FALSE, NoError)

\* a response of the server, or the failure of fetch() itself
Response(kind, text, error, results, jobId) ==
    [kind |-> kind, text |-> text, error |-> error, results |-> results, jobId |-> jobId]

NoResponse == Response("none", Undefined, "", << >>, NoJob)
OkText(text) == Response("ok", text, "", << >>, NoJob)      \* 2xx, body {text}
HttpError(error) == Response("http", Undefined, error, << >>, NoJob) \* non-2xx, body {error}
Rejected(message) == Response("reject", Undefined, message, << >>, NoJob) \* fetch or json() rejects

TranslationItem(id, text, sourceLanguage, targetLanguage) ==
    [id |-> id, text |-> text, sourceLanguage |-> sourceLanguage,
     targetLanguage |-> targetLanguage]

Request(endpoint, owner, payload, async) ==
    [endpoint |-> endpoint, owner |-> owner, payload |-> payload, async |-> async,
     settled |-> FALSE, resp |-> NoResponse,
     settledAt |-> 0,   \* Date.now() when it settled
     seen |-> 0]        \* number of translate() calls made before it settled

\* the message of the error thrown for a failed response: result.error || fallback
ErrorMessage(resp, fallback) ==
    IF resp.kind = "http" /\ resp.error = "" THEN fallback ELSE resp.error

(***************************************************************************)
(* translate (core.js:42-96) and _fetchTranslation (core.js:447-479).      *)
(***************************************************************************)
\* options.sourceLanguage || this.defaultSourceLanguage, and the same for the target
ResolveLanguage(option, default) == IF option /= NoLang THEN option ELSE default

\* early returns without the comparison of the two languages
EarlyReturn_noIdentity(text, sourceLanguage, targetLanguage) ==
    IF Falsy(text) THEN [stop |-> TRUE, result |-> Result(EmptyText, FALSE, FALSE, NoError)]
    ELSE IF targetLanguage = NoLang
         THEN [stop |-> TRUE, result |-> Result(text, FALSE, FALSE, NoError)]
    ELSE [stop |-> FALSE, result |-> Result(Undefined, FALSE, FALSE, NoError)]

\* the three early returns of translate; stop = FALSE when none applies
EarlyReturn(text, sourceLanguage, targetLanguage) ==
    IF Falsy(text) THEN [stop |-> TRUE, result |-> Result(EmptyText, FALSE, FALSE, NoError)]
    ELSE IF targetLanguage = NoLang
         THEN [stop |-> TRUE, result |-> Result(text, FALSE, FALSE, NoError)]
    ELSE IF sourceLanguage = targetLanguage
         THEN [stop |-> TRUE, result |-> Result(text, FALSE, FALSE, NoError)]
    ELSE [stop |-> FALSE, result |-> NoResult]

\* a cache check that ignores options.force
ReadsCache_ignoresForce(cacheEnabled, force) == cacheEnabled

\* if (this.useLocalCache && !options.force)
ReadsCache(cacheEnabled, force) == cacheEnabled /\ ~force

\* if (cached): a cached value counts as a hit when it is truthy
IsHit(cached) == ~Falsy(cached)

\* a registry lookup that never finds the shared promise
HasPending_never(pending, cacheKey) == FALSE

\* if (this.pendingRequests[cacheKey])
HasPending(pending, cacheKey) == cacheKey \in DOMAIN pending

\* a translate that does not store its promise
RegisterPending_skip(pending, cacheKey, r) == pending

\* this.pendingRequests[cacheKey] = requestPromise
RegisterPending(pending, cacheKey, r) == Put(pending, cacheKey, r)

\* a cleanup that runs only after a successful translation
ReleasePending_onSuccess(pending, cacheKey, result) ==
    IF result.translated THEN Remove(pending, cacheKey) ELSE pending

\* finally { delete this.pendingRequests[cacheKey] }
ReleasePending(pending, cacheKey, result) == Remove(pending, cacheKey)

\* what the promise of _fetchTranslation resolves to
FetchTranslation(text, resp) ==
    IF resp.kind = "ok" THEN Result(resp.text, TRUE, FALSE, NoError)
    ELSE Result(text, FALSE, FALSE, ErrorMessage(resp, TranslationFailed))

\* a translate that caches whatever the network call returned
SavesResult_always(result, cacheEnabled) == cacheEnabled

\* if (result.translated && this.useLocalCache)
SavesResult(result, cacheEnabled) == result.translated /\ cacheEnabled

\* a call of translate: its resolved arguments, the path it took (how), the
\* network call it awaits (req, 0 for none), Date.now() at the call (at) and
\* what its cache lookup returned (cached, Null when it made none)
Call(text, sourceLanguage, targetLanguage, force, how, req, done, result, at, cached) ==
    [text |-> text, sourceLanguage |-> sourceLanguage, targetLanguage |-> targetLanguage,
     force |-> force, how |-> how, req |-> req, done |-> done, result |-> result,
     at |-> at, cached |-> cached]

\* the synchronous part of translate(text, {sourceLanguage, targetLanguage, force})
Translate(text, optSource, optTarget, force) ==
    /\ Len(calls) < MaxCalls
    /\ LET sourceLanguage == ResolveLanguage(optSource, defaultSourceLanguage)
           targetLanguage == ResolveLanguage(optTarget, defaultTargetLanguage)
           early == EarlyReturn(text, sourceLanguage, targetLanguage)
           cacheKey == GenerateCacheKey(sourceLanguage, targetLanguage, text)
           reads == ReadsCache(useLocalCache, force)
           lookup == GetFromLocalCache(storage, cacheKey, now)
           new(how, req, done, result) ==
               Append(calls, Call(text, sourceLanguage, targetLanguage, force,
                                  how, req, done, result, now,
                                  IF ~early.stop /\ reads THEN lookup.value ELSE Null))
       IN  IF early.stop
           THEN /\ calls' = new("noop", 0, TRUE, early.result)
                /\ UNCHANGED <<storage, pendingRequests, net>>
           ELSE IF reads /\ IsHit(lookup.value)
           THEN /\ calls' = new("hit", 0, TRUE, Result(lookup.value, TRUE, TRUE, NoError))
                /\ storage' = lookup.storage
                /\ UNCHANGED <<pendingRequests, net>>
           ELSE /\ storage' = IF reads THEN lookup.storage ELSE storage
                /\ IF HasPending(pendingRequests, cacheKey)
                   THEN /\ calls' = new("joined", pendingRequests[cacheKey], FALSE, NoResult)
                        /\ UNCHANGED <<pendingRequests, net>>
                   ELSE /\ net' = Append(net,
                               Request("translate", Len(calls) + 1,
                                   << TranslationItem(0, text, sourceLanguage, targetLanguage) >>,
                                   FALSE))
                        /\ pendingRequests' =
                               RegisterPending(pendingRequests, cacheKey, Len(net) + 1)
                        /\ calls' = new("started", Len(net) + 1, FALSE, NoResult)
    /\ UNCHANGED <<languageCalls, statusCalls, useLocalCache, defaultTargetLanguage, now, batches, clears>>

\* the network call r of translate settles with resp: _fetchTranslation resolves,
\* the caller that issued it caches the result and removes the pending entry,
\* and every caller awaiting the shared promise receives the result
TranslateSettles(r, resp, quotaOk) ==
    /\ r \in 1..Len(net)
    /\ net[r].endpoint = "translate"
    /\ ~net[r].settled
    /\ LET item == net[r].payload[1]
           result == FetchTranslation(item.text, resp)
           cacheKey == GenerateCacheKey(item.sourceLanguage, item.targetLanguage, item.text)
       IN  /\ storage' = IF SavesResult(result, useLocalCache)
                         THEN SaveToLocalCache(storage, cacheKey, result.text, now, quotaOk)
                         ELSE storage
           /\ pendingRequests' = ReleasePending(pendingRequests, cacheKey, result)
           /\ calls' = [i \in 1..Len(calls) |->
                          IF calls[i].req = r /\ ~calls[i].done
                          THEN [calls[i] EXCEPT !.done = TRUE, !.result = result]
                          ELSE calls[i]]
           /\ net' = [net EXCEPT ![r].settled = TRUE, ![r].resp = resp,
                                 ![r].settledAt = now, ![r].seen = Len(calls)]
    /\ UNCHANGED <<languageCalls, statusCalls, useLocalCache, defaultTargetLanguage, now, batches, clears>>

\* time passes
Tick ==
    /\ now < MaxTicks * TickMs
    /\ now' = now + TickMs
    /\ UNCHANGED <<languageCalls, statusCalls, useLocalCache, defaultTargetLanguage, storage, pendingRequests,
                   net, calls, batches, clears>>

(***************************************************************************)
(* batchTranslate (core.js:108-243).                                       *)
(***************************************************************************)
\* _generateId: Math.random() and Date.now() in base 36, a fresh identifier
GenerateId(i) == 100 + i

\* an entry of a batch result; fromCache = FALSE and error = NoError are absent fields
ItemResult(id, text, translated, fromCache, error) ==
    [id |-> id, text |-> text, translated |-> translated, fromCache |-> fromCache,
     error |-> error]

\* what batchTranslate resolves to: {results, error?} or {jobId, status}
BatchResult(results, error, jobId, status) ==
    [results |-> results, error |-> error, jobId |-> jobId, status |-> status]

NoBatchResult == BatchResult(<< >>, NoError, NoJob, "")

\* items.map(...): an absent id (0) is generated, absent languages are defaulted
ProcessItem(item, i, defaultTarget) ==
    [id |-> IF item.id /= 0 THEN item.id ELSE GenerateId(i),
     text |-> item.text,
     sourceLanguage |-> ResolveLanguage(item.sourceLanguage, defaultSourceLanguage),
     targetLanguage |-> ResolveLanguage(item.targetLanguage, defaultTarget),
     translated |-> FALSE, translatedText |-> Undefined, fromCache |-> FALSE]

ProcessItems(items, defaultTarget) ==
    [i \in 1..Len(items) |-> ProcessItem(items[i], i, defaultTarget)]

\* the cache check of core.js:122-136 over the items from position i on, in
\* order: every lookup may evict, and _simpleHash throws on an absent text
RECURSIVE CheckCache(_, _, _, _)
CheckCache(items, i, st, t) ==
    IF i > Len(items) THEN [items |-> items, storage |-> st, threw |-> FALSE]
    ELSE IF items[i].text = Undefined \/ items[i].text = Null
         THEN [items |-> items, storage |-> st, threw |-> TRUE]
    ELSE LET lookup == GetFromLocalCache(st,
                 GenerateCacheKey(items[i].sourceLanguage, items[i].targetLanguage,
                                  items[i].text), t)
             marked == IF IsHit(lookup.value)
                       THEN [items EXCEPT ![i].translated = TRUE,
                                          ![i].translatedText = lookup.value,
                                          ![i].fromCache = TRUE]
                       ELSE items
         IN  CheckCache(marked, i + 1, lookup.storage, t)

\* a request body that carries every item, cached or not
ItemsToTranslate_all(processedItems) ==
    [i \in 1..Len(processedItems) |->
        TranslationItem(processedItems[i].id, processedItems[i].text,
                        processedItems[i].sourceLanguage, processedItems[i].targetLanguage)]

\* processedItems.filter((item) => !item.translated), as sent in the request body
ItemsToTranslate(processedItems) ==
    LET kept == SelectSeq(processedItems, LAMBDA item : ~item.translated)
    IN  [i \in 1..Len(kept) |->
            TranslationItem(kept[i].id, kept[i].text, kept[i].sourceLanguage,
                            kept[i].targetLanguage)]

\* results that carry the text of the item in place of the cached translation
AllCachedResults_sourceText(processedItems) ==
    [i \in 1..Len(processedItems) |->
        ItemResult(processedItems[i].id, processedItems[i].text, TRUE, TRUE, NoError)]

\* the result of core.js:144-151 when every item was found in the cache
AllCachedResults(processedItems) ==
    [i \in 1..Len(processedItems) |->
        ItemResult(processedItems[i].id, processedItems[i].translatedText,
                   TRUE, TRUE, NoError)]

\* the results of the catch block, core.js:235-240
ErrorResults(processedItems, message) ==
    [i \in 1..Len(processedItems) |->
        ItemResult(processedItems[i].id, processedItems[i].text, FALSE, FALSE, message)]

\* translatedMap[id]: the last entry of the server's results with that id
HasServerResult(results, id) == \E j \in 1..Len(results) : results[j].id = id
ServerResult(results, id) ==
    LET j == CHOOSE j \in 1..Len(results) :
                 /\ results[j].id = id
                 /\ \A k \in (j + 1)..Len(results) : results[k].id /= id
    IN  results[j]

\* a merge that reports an item the server left out as untranslated, without
\* an error
MergeResults_noFallback(processedItems, results) ==
    [i \in 1..Len(processedItems) |->
        LET item == processedItems[i] IN
        IF item.translated
        THEN ItemResult(item.id, item.translatedText, TRUE, TRUE, NoError)
        ELSE IF HasServerResult(results, item.id)
             THEN ServerResult(results, item.id)
             ELSE ItemResult(item.id, item.text, FALSE, FALSE, NoError)]

\* the merge of core.js:207-229
MergeResults(processedItems, results) ==
    [i \in 1..Len(processedItems) |->
        LET item == processedItems[i] IN
        IF item.translated
        THEN ItemResult(item.id, item.translatedText, TRUE, TRUE, NoError)
        ELSE IF HasServerResult(results, item.id)
             THEN ServerResult(results, item.id)
             ELSE ItemResult(item.id, item.text, FALSE, FALSE, TranslationFailed)]

\* the caching loop of core.js:187-204 over the server's results from position
\* j on: each translated entry is saved under the key of the first processed
\* item with its id; _simpleHash throws when that item has no text
RECURSIVE CacheResults(_, _, _, _, _, _, _)
CacheResults(results, j, processedItems, st, t, cacheEnabled, quotaOk) ==
    IF j > Len(results) THEN [storage |-> st, threw |-> FALSE]
    ELSE LET item == results[j]
             found == {i \in 1..Len(processedItems) : processedItems[i].id = item.id}
             originalItem == processedItems[CHOOSE i \in found : \A k \in found : i <= k]
         IN  IF ~(item.translated /\ cacheEnabled) \/ found = {}
             THEN CacheResults(results, j + 1, processedItems, st, t, cacheEnabled, quotaOk)
             ELSE IF originalItem.text = Undefined \/ originalItem.text = Null
             THEN [storage |-> st, threw |-> TRUE]
             ELSE CacheResults(results, j + 1, processedItems,
                      SaveToLocalCache(st,
                          GenerateCacheKey(originalItem.sourceLanguage,
                                           originalItem.targetLanguage, originalItem.text),
                          item.text, t, quotaOk),
                      t, cacheEnabled, quotaOk)

\* an absent list of items (undefined or null)
AbsentItems == << TranslationItem(-1, Undefined, NoLang, NoLang) >>

\* a test that takes an absent list for a list
NoItems_onlyEmpty(items) == items = << >>

\* if (!items || !items.length)
NoItems(items) == items = AbsentItems \/ items = << >>

\* a job handle that is returned only when the response has no results
ReturnsJob_unlessResults(async, resp) ==
    async /\ resp.jobId /= NoJob /\ resp.results = << >>

\* if (options.async && result.jobId)
ReturnsJob(async, resp) == async /\ resp.jobId /= NoJob

\* a call of batchTranslate: the processed items with their cache marks, the
\* network call it awaits (req, 0 for none), and how it ended
Batch(input, items, force, async, req, outcome, result) ==
    [input |-> input,           \* the list as passed by the caller
     items |-> items, force |-> force, async |-> async, req |-> req,
     outcome |-> outcome,       \* "pending", "resolved", or "rejected" (it threw)
     result |-> result]

\* the synchronous part of batchTranslate(items, {force, async})
BatchTranslate(items, force, async) ==
    /\ Len(batches) < MaxBatches
    /\ LET processedItems == ProcessItems(items, defaultTargetLanguage)
           reads == ReadsCache(useLocalCache, force)
           checked == IF reads THEN CheckCache(processedItems, 1, storage, now)
                      ELSE [items |-> processedItems, storage |-> storage, threw |-> FALSE]
           itemsToTranslate == ItemsToTranslate(checked.items)
           new(its, req, outcome, result) ==
               Append(batches, Batch(items, its, force, async, req, outcome, result))
       IN  IF NoItems(items)
           THEN /\ batches' = new(<< >>, 0, "resolved", NoBatchResult)
                /\ UNCHANGED <<storage, net>>
           ELSE IF checked.threw
           THEN /\ batches' = new(processedItems, 0, "rejected",
                                  BatchResult(<< >>, TypeErrorLength, NoJob, ""))
                /\ storage' = checked.storage
                /\ UNCHANGED net
           ELSE IF itemsToTranslate = << >>
           THEN /\ batches' = new(checked.items, 0, "resolved",
                                  BatchResult(AllCachedResults(checked.items),
                                              NoError, NoJob, ""))
                /\ storage' = checked.storage
                /\ UNCHANGED net
           ELSE /\ net' = Append(net, Request("batch", Len(batches) + 1,
                                              itemsToTranslate, async))
                /\ batches' = new(checked.items, Len(net) + 1, "pending", NoBatchResult)
                /\ storage' = checked.storage
    /\ UNCHANGED <<languageCalls, statusCalls, useLocalCache, defaultTargetLanguage, now, pendingRequests,
                   calls, clears>>

\* the network call r of batchTranslate settles with resp
BatchSettles(r, resp, quotaOk) ==
    /\ r \in 1..Len(net)
    /\ net[r].endpoint = "batch"
    /\ ~net[r].settled
    /\ LET b == net[r].owner
           processedItems == batches[b].items
           cached == CacheResults(resp.results, 1, processedItems, storage, now,
                                  useLocalCache, quotaOk)
           finish(result) ==
               batches' = [batches EXCEPT ![b].outcome = "resolved", ![b].result = result]
       IN  IF resp.kind /= "ok"
           THEN /\ finish(BatchResult(
                       ErrorResults(processedItems, ErrorMessage(resp, TranslationFailed)),
                       ErrorMessage(resp, TranslationFailed), NoJob, ""))
                /\ UNCHANGED storage
           ELSE IF ReturnsJob(net[r].async, resp)
           THEN /\ finish(BatchResult(<< >>, NoError, resp.jobId, "processing"))
                /\ UNCHANGED storage
           ELSE IF cached.threw
           THEN /\ finish(BatchResult(ErrorResults(processedItems, TypeErrorLength),
                                      TypeErrorLength, NoJob, ""))
                /\ storage' = cached.storage
           ELSE /\ finish(BatchResult(MergeResults(processedItems, resp.results),
                                      NoError, NoJob, ""))
                /\ storage' = cached.storage
    /\ net' = [net EXCEPT ![r].settled = TRUE, ![r].resp = resp,
                          ![r].settledAt = now, ![r].seen = Len(calls)]
    /\ UNCHANGED <<languageCalls, statusCalls, useLocalCache, defaultTargetLanguage, now, pendingRequests,
                   calls, clears>>

(***************************************************************************)
(* clearCache (core.js:335-367).                                           *)
(***************************************************************************)
\* a prefix that ignores the target language
ClearPrefix_noTarget(targetLanguage) == << "i18n_" >>

\* the prefix of the keys to remove; !targetLanguage selects every library key
ClearPrefix(targetLanguage) ==
    IF targetLanguage = NoLang THEN << "i18n_" >>
    ELSE << "i18n_", defaultSourceLanguage, ":", targetLanguage, ":" >>

\* a removal loop that does not test the prefix (localStorage.clear())
RemovePrefixed_all(st, prefix) == [k \in {} |-> 0]

\* the storage left by the removal loop
RemovePrefixed(st, prefix) ==
    [k \in {x \in DOMAIN st : ~StartsWith(x, prefix)} |-> st[k]]

\* a clearCache that runs its loop whatever the configuration is
ClearedStorage_always(st, targetLanguage, cacheEnabled) ==
    RemovePrefixed(st, ClearPrefix(targetLanguage))

\* the storage left by clearCache(targetLanguage)
ClearedStorage(st, targetLanguage, cacheEnabled) ==
    IF ~cacheEnabled THEN st ELSE RemovePrefixed(st, ClearPrefix(targetLanguage))

\* the record of a clearCache(targetLanguage) call: the storage before and
\* after it, and the registry and the network calls it ran among
Clear(targetLanguage, before, after) ==
    [targetLanguage |-> targetLanguage, before |-> before, after |-> after,
     pendingBefore |-> pendingRequests, netBefore |-> net]

\* a clearCache that also empties the registry of pending requests
ClearCache_cancels(targetLanguage) ==
    /\ Len(clears) < MaxClears
    /\ storage' = ClearedStorage(storage, targetLanguage, useLocalCache)
    /\ clears' = Append(clears, Clear(targetLanguage, storage, storage'))
    /\ pendingRequests' = [x \in {} |-> 0]
    /\ UNCHANGED <<languageCalls, statusCalls, useLocalCache, defaultTargetLanguage, now,
                   net, calls, batches>>

\* clearCache(targetLanguage)
ClearCache(targetLanguage) ==
    /\ Len(clears) < MaxClears
    /\ storage' = ClearedStorage(storage, targetLanguage, useLocalCache)
    /\ clears' = Append(clears, Clear(targetLanguage, storage, storage'))
    /\ UNCHANGED <<languageCalls, statusCalls, useLocalCache, defaultTargetLanguage, now, pendingRequests,
                   net, calls, batches>>

(***************************************************************************)
(* getLanguages (core.js:293-329).                                         *)
(***************************************************************************)
\* the response of GET /api/languages: {languages} or {error}
LanguagesResponse(kind, error, languages) ==
    [kind |-> kind, error |-> error, languages |-> languages]

\* a call of getLanguages: how it went on ("hit" or "started"), the network
\* call it awaits (req, 0 for none), the list it returned, and how it ended
LanguageCall(how, req, done, result, outcome, at) ==
    [how |-> how, req |-> req, done |-> done, result |-> result,
     outcome |-> outcome,       \* "pending", "resolved", or "rejected" (it threw)
     at |-> at]

\* const cacheKey = "i18n_languages"
LanguagesCacheKey == << "i18n_languages" >>

\* a test that takes the empty list for no list
IsListHit_emptyFalsy(cached) == cached /= Null /\ cached /= Undefined /\ cached /= << >>

\* if (cached) for a list-valued entry: an array, even the empty one, is truthy
IsListHit(cached) == cached /= Null /\ cached /= Undefined

\* the synchronous part of getLanguages()
GetLanguages ==
    /\ Len(languageCalls) < MaxLanguageCalls
    /\ LET lookup == IF useLocalCache
                     THEN GetFromLocalCache(storage, LanguagesCacheKey, now)
                     ELSE [value |-> Null, storage |-> storage]
       IN  IF IsListHit(lookup.value)
           THEN /\ languageCalls' = Append(languageCalls,
                       LanguageCall("hit", 0, TRUE, lookup.value, "resolved", now))
                /\ storage' = lookup.storage
                /\ UNCHANGED net
           ELSE /\ net' = Append(net, Request("languages", Len(languageCalls) + 1,
                                              << >>, FALSE))
                /\ languageCalls' = Append(languageCalls,
                       LanguageCall("started", Len(net) + 1, FALSE, << >>, "pending", now))
                /\ storage' = lookup.storage
    /\ UNCHANGED <<useLocalCache, defaultTargetLanguage, now, pendingRequests, calls,
                   batches, clears, statusCalls>>

\* the network call r of getLanguages settles with resp: a failure ends in the
\* catch block, which returns []
LanguagesSettles(r, resp, quotaOk) ==
    /\ r \in 1..Len(net)
    /\ net[r].endpoint = "languages"
    /\ ~net[r].settled
    /\ LET c == net[r].owner
           finish(result) ==
               languageCalls' = [languageCalls EXCEPT ![c].done = TRUE,
                                                      ![c].result = result,
                                                      ![c].outcome = "resolved"]
       IN  IF resp.kind /= "ok"
           THEN /\ finish(<< >>)
                /\ UNCHANGED storage
           ELSE /\ finish(resp.languages)
                /\ storage' = IF useLocalCache
                              THEN SaveToLocalCache(storage, LanguagesCacheKey,
                                                    resp.languages, now, quotaOk)
                              ELSE storage
    /\ net' = [net EXCEPT ![r].settled = TRUE, ![r].resp = resp,
                          ![r].settledAt = now, ![r].seen = Len(languageCalls)]
    /\ UNCHANGED <<useLocalCache, defaultTargetLanguage, now, pendingRequests, calls,
                   batches, clears, statusCalls>>

(***************************************************************************)
(* checkJobStatus (core.js:250-287).                                       *)
(***************************************************************************)
\* the JobStatus of the status endpoint; the error result of checkJobStatus
\* has the status "error" and no jobId
JobStatus(jobId, status, results, error) ==
    [jobId |-> jobId, status |-> status, results |-> results, error |-> error]

NoJobStatus == JobStatus(NoJob, "", << >>, NoError)

\* the response of GET /api/translate/status/{jobId}: a JobStatus or {error}
StatusResponse(kind, error, body) == [kind |-> kind, error |-> error, body |-> body]

\* a call of checkJobStatus(jobId)
StatusCall(jobId, req, done, result, outcome) ==
    [jobId |-> jobId, req |-> req, done |-> done, result |-> result,
     outcome |-> outcome]       \* "pending", "resolved", or "rejected" (it threw)

\* a result that leaves out the results of the job
StatusResult_dropsResults(resp) ==
    IF resp.kind /= "ok"
    THEN JobStatus(NoJob, "error", << >>, ErrorMessage(resp, "Failed to check job status"))
    ELSE JobStatus(resp.body.jobId, resp.body.status, << >>, resp.body.error)

\* what checkJobStatus returns for a response: the body, or the error result
\* of the catch block
StatusResult(resp) ==
    IF resp.kind /= "ok"
    THEN JobStatus(NoJob, "error", << >>, ErrorMessage(resp, "Failed to check job status"))
    ELSE resp.body

\* checkJobStatus(jobId) up to its fetch
CheckJobStatus(jobId) ==
    /\ Len(statusCalls) < MaxStatusCalls
    /\ net' = Append(net, Request("status", Len(statusCalls) + 1, jobId, FALSE))
    /\ statusCalls' = Append(statusCalls,
                             StatusCall(jobId, Len(net) + 1, FALSE, NoJobStatus, "pending"))
    /\ UNCHANGED <<useLocalCache, defaultTargetLanguage, now, storage, pendingRequests,
                   calls, batches, clears, languageCalls>>

\* the network call r of checkJobStatus settles with resp; the block of
\* core.js:270-277 for a completed job is empty
StatusSettles(r, resp) ==
    /\ r \in 1..Len(net)
    /\ net[r].endpoint = "status"
    /\ ~net[r].settled
    /\ statusCalls' = [statusCalls EXCEPT ![net[r].owner].done = TRUE,
                                          ![net[r].owner].result = StatusResult(resp),
                                          ![net[r].owner].outcome = "resolved"]
    /\ net' = [net EXCEPT ![r].settled = TRUE, ![r].resp = resp,
                          ![r].settledAt = now, ![r].seen = Len(statusCalls)]
    /\ UNCHANGED <<useLocalCache, defaultTargetLanguage, now, storage, pendingRequests,
                   calls, batches, clears, languageCalls>>

(***************************************************************************)
(* Initial states and inputs.                                              *)
(***************************************************************************)
EmptyMap == [x \in {} |-> 0]

LanguagesKey == << "i18n_", "i18n_languages" >>  \* `i18n_${"i18n_languages"}`
OtherKey == << "i18nextLng" >>                   \* a key of another program
LanguageList == << 1, 2 >>                       \* a stored list of languages

\* what another client on the same origin and other programs left in
\* localStorage: a key of another program, the language list, and translations
\* into Spanish cached from French and from English
SeededStorage ==
    LET fresh == cacheTTL * 1000 IN
    [k \in {OtherKey, LanguagesKey, StorageKey(GenerateCacheKey("fr", "es", TextA)),
            StorageKey(GenerateCacheKey("en", "es", TextBB))} |->
        IF k = OtherKey THEN Raw
        ELSE IF k = LanguagesKey THEN Item(LanguageList, fresh)
        ELSE Item(Salut, fresh)]

InitWith(cacheEnabled, defaultTargets, storages) ==
    /\ useLocalCache \in cacheEnabled
    /\ defaultTargetLanguage \in defaultTargets
    /\ storage \in storages
    /\ now = 0
    /\ pendingRequests = EmptyMap
    /\ net = << >>
    /\ calls = << >>
    /\ batches = << >>
    /\ clears = << >>
    /\ languageCalls = << >>
    /\ statusCalls = << >>

\* the responses of POST /api/translate
TranslateResponses ==
    { OkText(Hola), OkText(EmptyText), HttpError(""), HttpError("Rate limit exceeded"),
      Rejected("Network timeout") }

\* the results[] the server may send for a payload: per item, in order, a
\* translation, a failure entry, or nothing
RECURSIVE ServerResults(_)
ServerResults(payload) ==
    IF payload = << >> THEN { << >> }
    ELSE LET rest == ServerResults(Tail(payload))
             id == Head(payload).id
         IN  rest
             \cup { << ItemResult(id, Hola, TRUE, FALSE, NoError) >> \o x : x \in rest }
             \cup { << ItemResult(id, Head(payload).text, FALSE, FALSE, "Unsupported") >> \o x
                    : x \in rest }

\* the responses of POST /api/translate/batch to a payload
BatchResponses(payload) ==
    { Response("ok", Undefined, "", x, NoJob) : x \in ServerResults(payload) }
    \cup { Response("ok", Undefined, "", << >>, "job-1"),
           Response("ok", Undefined, "",
                    [i \in 1..Len(payload) |->
                        ItemResult(payload[i].id, Hola, TRUE, FALSE, NoError)], "job-1"),
           HttpError(""), HttpError("Rate limit exceeded"), Rejected("Network timeout") }

(***************************************************************************)
(* SpecTranslate: translate of one text with the configured languages,     *)
(* against every response, a failing storage write and the clock.          *)
(***************************************************************************)
InitTranslate == InitWith(BOOLEAN, {"es"}, {EmptyMap})

TDoTranslate == \E force \in BOOLEAN : Translate(TextA, NoLang, NoLang, force)

TDoTranslateSettles ==
    \E r \in 1..Len(net), resp \in TranslateResponses :
        TranslateSettles(r, resp, TRUE)

NextTranslate ==
    \/ TDoTranslate
    \/ TDoTranslateSettles
    \/ Tick

SpecTranslate == InitTranslate /\ [][NextTranslate]_vars

\* two calls of translate with identical (sourceLanguage, targetLanguage, text)
SameTriple(c, d) ==
    /\ c.text = d.text
    /\ c.sourceLanguage = d.sourceLanguage
    /\ c.targetLanguage = d.targetLanguage

\* the call of index j was issued before the network call r settled
IssuedBeforeSettle(j, r) == ~net[r].settled \/ j <= net[r].seen

\* C1: calls of translate with identical (sourceLanguage, targetLanguage, text)
\* that miss the cache and are issued before the first one's network call
\* settles make no network call of their own: they await the first one's
\* call, and once it has settled each of them has the first one's result,
\* the error result included.
C1_SharedCall ==
    \A i \in 1..Len(calls), j \in 1..Len(calls) :
        ( /\ i < j
          /\ calls[i].how = "started"
          /\ calls[j].how \in {"started", "joined"}
          /\ SameTriple(calls[i], calls[j])
          /\ IssuedBeforeSettle(j, calls[i].req) )
        => /\ calls[j].how = "joined"
           /\ calls[j].req = calls[i].req
           /\ Cardinality({r \in 1..Len(net) :
                  /\ net[r].endpoint = "translate"
                  /\ net[r].owner \in {i, j}}) = 1
           /\ net[calls[i].req].settled =>
                  /\ calls[i].done /\ calls[j].done
                  /\ calls[j].result = calls[i].result

\* a second caller joined the first one's call and both got its error result
C1_Witness ==
    \E i \in 1..Len(calls), j \in 1..Len(calls) :
        /\ i < j
        /\ calls[i].how = "started"
        /\ calls[j].how = "joined"
        /\ calls[j].req = calls[i].req
        /\ calls[j].done
        /\ calls[j].result.error = "Network timeout"
        /\ calls[i].result = calls[j].result

\* the translate network call whose result is in the cache when call j is made:
\* the last one for j's key that settled before j
LastSettledBefore(j) ==
    LET settledBefore == {r \in 1..Len(net) :
            /\ net[r].endpoint = "translate"
            /\ net[r].settled
            /\ net[r].seen < j
            /\ SameTriple(net[r].payload[1], calls[j])}
    IN  IF settledBefore = {} THEN 0
        ELSE CHOOSE r \in settledBefore : \A q \in settledBefore : q <= r

\* no translate network call for the key of call j is in flight when j is made
NoneInFlightAt(j) ==
    \A r \in 1..Len(net) :
        (net[r].endpoint = "translate" /\ net[r].owner < j
            /\ SameTriple(net[r].payload[1], calls[j]))
        => (net[r].settled /\ net[r].seen < j)

\* C3: with caching enabled, after translate has succeeded for (source,
\* target, T), a second translate for the same (source, target, T) (force not
\* set, no call in flight) made within cacheTTL of the cache write returns
\* fromCache: true and makes no network call; made after the TTL has elapsed
\* it performs a fresh network call.
C3_SecondCallFromCache ==
    \A j \in 1..Len(calls) :
        LET r == LastSettledBefore(j) IN
        ( /\ useLocalCache
          /\ ~calls[j].force
          /\ r /= 0
          /\ net[r].resp.kind = "ok"
          /\ NoneInFlightAt(j) )
        => IF calls[j].at - net[r].settledAt <= cacheTTL * 1000
           THEN /\ calls[j].how = "hit"
                /\ calls[j].result.fromCache
                /\ calls[j].req = 0
           ELSE /\ calls[j].how = "started"
                /\ net[calls[j].req].owner = j

\* the message of the result of a failed network call
FailureMessage(resp) ==
    IF resp.kind = "reject" THEN resp.error
    ELSE IF resp.error = "" THEN "Translation failed" ELSE resp.error

\* C4: when the network call of translate fails (fetch rejects, or the
\* response is not 2xx), the step that settles it writes nothing to the
\* storage and resolves the caller with {text: the original text,
\* translated: false, error: message}.
C4_FailureFallsBack ==
    [][\A r \in 1..Len(net) :
          ( /\ net[r].endpoint = "translate"
            /\ ~net[r].settled
            /\ net'[r].settled
            /\ net'[r].resp.kind \in {"http", "reject"} )
          => /\ storage' = storage
             /\ \A c \in 1..Len(calls) :
                   (calls[c].req = r /\ ~calls[c].done)
                   => /\ calls'[c].done
                      /\ calls'[c].result =
                             Result(calls[c].text, FALSE, FALSE,
                                    FailureMessage(net'[r].resp))]_vars

\* a caller got the fallback result of a request that timed out, with caching on
C4_Witness ==
    \E c \in 1..Len(calls) :
        /\ useLocalCache
        /\ calls[c].how = "started"
        /\ calls[c].done
        /\ net[calls[c].req].resp.kind = "reject"
        /\ calls[c].result = Result(TextA, FALSE, FALSE, "Network timeout")

(***************************************************************************)
(* SpecEarly: translate with every combination of text and language        *)
(* options, with and without a configured default target language.         *)
(***************************************************************************)
InitEarly == InitWith(BOOLEAN, {NoLang, "es"}, {EmptyMap})

EDoTranslate ==
    \E text \in {TextAa, EmptyText, Undefined}, optSource \in {NoLang, "es"},
       optTarget \in {NoLang, "en", "es"}, force \in BOOLEAN :
        Translate(text, optSource, optTarget, force)

EDoTranslateSettles ==
    \E r \in 1..Len(net), resp \in {OkText(Hola), Rejected("Network timeout")} :
        TranslateSettles(r, resp, TRUE)

NextEarly ==
    \/ EDoTranslate
    \/ EDoTranslateSettles

SpecEarly == InitEarly /\ [][NextEarly]_vars

\* C10: a translate call with a non-empty text whose resolved source language
\* equals its resolved target language returns {text: T, translated: false}
\* at once; the step makes no network call, adds nothing to the pending
\* registry and writes nothing to the storage.
C10_IdentityIsNoOp ==
    [][( /\ Len(calls') = Len(calls) + 1
         /\ ~Falsy(calls'[Len(calls')].text)
         /\ calls'[Len(calls')].sourceLanguage = calls'[Len(calls')].targetLanguage )
       => /\ calls'[Len(calls')].done
          /\ calls'[Len(calls')].result =
                 Result(calls'[Len(calls')].text, FALSE, FALSE, NoError)
          /\ calls'[Len(calls')].req = 0
          /\ net' = net
          /\ pendingRequests' = pendingRequests
          /\ storage' = storage]_vars

\* translate("Aa", {sourceLanguage: "es", targetLanguage: "es"}) has returned the
\* text untranslated while the translation of the same text from English is cached
C10_Witness ==
    \E c \in 1..Len(calls) :
        /\ calls[c].text = TextAa
        /\ calls[c].sourceLanguage = "es"
        /\ calls[c].targetLanguage = "es"
        /\ calls[c].done
        /\ calls[c].result = Result(TextAa, FALSE, FALSE, NoError)
        /\ StorageKey(GenerateCacheKey("en", "es", TextAa)) \in DOMAIN storage

\* C11: a translate call whose text is empty or absent returns
\* {text: "", translated: false} without a network call and without touching
\* the cache or the pending registry, whatever the language options are; a
\* call with a text and no resolvable target language returns the text
\* untranslated, without a network call
C11_EmptyOrNoTargetIsNoOp ==
    [][ Len(calls') = Len(calls) + 1 =>
        /\ calls'[Len(calls')].text \in {EmptyText, Undefined} =>
               /\ calls'[Len(calls')].done
               /\ calls'[Len(calls')].result = Result(EmptyText, FALSE, FALSE, NoError)
               /\ calls'[Len(calls')].how = "noop"
               /\ calls'[Len(calls')].cached = Null
               /\ calls'[Len(calls')].req = 0
               /\ net' = net
               /\ pendingRequests' = pendingRequests
               /\ storage' = storage
        /\ ( calls'[Len(calls')].text \notin {EmptyText, Undefined}
             /\ calls'[Len(calls')].targetLanguage = NoLang ) =>
               /\ calls'[Len(calls')].done
               /\ calls'[Len(calls')].result =
                      Result(calls'[Len(calls')].text, FALSE, FALSE, NoError)
               /\ calls'[Len(calls')].req = 0
               /\ net' = net ]_vars

\* translate(undefined) without any target language has returned the empty
\* text, and translate("Aa") without any target language has returned "Aa"
C11_Witness ==
    \E c, d \in 1..Len(calls) :
        /\ calls[c].text = Undefined
        /\ calls[c].targetLanguage = NoLang
        /\ calls[c].done
        /\ calls[c].result = Result(EmptyText, FALSE, FALSE, NoError)
        /\ calls[d].text = TextAa
        /\ calls[d].targetLanguage = NoLang
        /\ calls[d].done
        /\ calls[d].result = Result(TextAa, FALSE, FALSE, NoError)

(***************************************************************************)
(* Spec: translate and batchTranslate for the same text, interleaved.      *)
(***************************************************************************)
Init == InitWith(BOOLEAN, {"es"}, {EmptyMap})

DoTranslate == \E force \in BOOLEAN : Translate(TextA, NoLang, NoLang, force)

DoTranslateSettles ==
    \E r \in 1..Len(net), resp \in {OkText(Hola), Rejected("Network timeout")} :
        TranslateSettles(r, resp, TRUE)

MixedBatchInputs ==
    { << TranslationItem(1, TextA, NoLang, NoLang) >>,
      << TranslationItem(1, TextA, NoLang, NoLang), TranslationItem(0, TextBB, "fr", "es") >> }

\* the server translates every item of the payload
AllTranslated(payload) ==
    Response("ok", Undefined, "",
             [i \in 1..Len(payload) |-> ItemResult(payload[i].id, Hola, TRUE, FALSE, NoError)],
             NoJob)

DoBatchTranslate ==
    \E items \in MixedBatchInputs : BatchTranslate(items, FALSE, FALSE)

DoBatchSettles ==
    \E r \in 1..Len(net) :
        \E resp \in {AllTranslated(net[r].payload), Rejected("Network timeout")} :
            BatchSettles(r, resp, TRUE)

Next ==
    \/ DoTranslate
    \/ DoTranslateSettles
    \/ DoBatchTranslate
    \/ DoBatchSettles

Spec == Init /\ [][Next]_vars

\* the (sourceLanguage, targetLanguage, text) triples carried by a network call
Triples(request) ==
    { << request.payload[i].sourceLanguage, request.payload[i].targetLanguage,
         request.payload[i].text >> : i \in 1..Len(request.payload) }

InFlight(endpoints) ==
    { r \in 1..Len(net) : net[r].endpoint \in endpoints /\ ~net[r].settled }

\* C2 as stated: in every reachable state no two network calls in flight, of
\* translate or of batchTranslate, carry the text of the same (source, target,
\* text) key.
C2_OneInFlightPerKey ==
    \A r \in InFlight({"translate", "batch"}), q \in InFlight({"translate", "batch"}) :
        r /= q => Triples(net[r]) \cap Triples(net[q]) = {}

\* C2 as amended: in every reachable state no two network calls of translate
\* in flight carry the same (source, target, text) key, and the pending
\* registry holds exactly the keys of the translate calls in flight.
C2_OneTranslateInFlightPerKey ==
    /\ \A r \in InFlight({"translate"}), q \in InFlight({"translate"}) :
           r /= q => Triples(net[r]) \cap Triples(net[q]) = {}
    /\ \A r \in InFlight({"translate"}) :
           LET item == net[r].payload[1]
               cacheKey == GenerateCacheKey(item.sourceLanguage, item.targetLanguage,
                                            item.text)
           IN  cacheKey \in DOMAIN pendingRequests /\ pendingRequests[cacheKey] = r
    /\ \A k \in DOMAIN pendingRequests : pendingRequests[k] \in InFlight({"translate"})

\* a second translate joined the first one's call while a batch call carrying
\* the same text is in flight as well
C2_Witness ==
    /\ \E c \in 1..Len(calls) :
           calls[c].how = "joined" /\ calls[c].req \in InFlight({"translate"})
    /\ \E r \in InFlight({"batch"}), q \in InFlight({"translate"}) :
           Triples(net[r]) \cap Triples(net[q]) /= {}

(***************************************************************************)
(* SpecBatch: batchTranslate over an empty cache and over a cache that    *)
(* holds the translation of "A", against every response of the batch       *)
(* endpoint and the clock.                                                 *)
(***************************************************************************)
\* the storage after translate("A") from English into Spanish has succeeded
CachedA ==
    SaveToLocalCache(EmptyMap, GenerateCacheKey("en", "es", TextA), Hola, 0, TRUE)

\* and with the translation of "BB" from French as well
CachedAB ==
    SaveToLocalCache(CachedA, GenerateCacheKey("fr", "es", TextBB), Salut, 0, TRUE)

InitBatch == InitWith(BOOLEAN, {"es"}, {EmptyMap, CachedAB})

\* the calls batchTranslate(items, {force, async}) of this specification
BatchInputs ==
    LET itemA == TranslationItem(1, TextA, NoLang, NoLang)
        itemBB == TranslationItem(0, TextBB, "fr", "es")
        itemAfr == TranslationItem(2, TextA, "fr", NoLang)
        noText == TranslationItem(2, Undefined, NoLang, NoLang)
    IN  { [items |-> << >>, force |-> FALSE, async |-> FALSE],
          [items |-> AbsentItems, force |-> FALSE, async |-> FALSE],
          [items |-> << itemA >>, force |-> FALSE, async |-> TRUE],
          [items |-> << itemA, itemBB >>, force |-> FALSE, async |-> FALSE],
          [items |-> << itemAfr, itemA >>, force |-> FALSE, async |-> FALSE],
          [items |-> << itemA, noText >>, force |-> FALSE, async |-> FALSE],
          [items |-> << itemA, noText >>, force |-> TRUE, async |-> FALSE] }

BDoBatchTranslate ==
    \E input \in BatchInputs : BatchTranslate(input.items, input.force, input.async)

BDoBatchSettles ==
    \E r \in 1..Len(net) :
        \E resp \in BatchResponses(net[r].payload) : BatchSettles(r, resp, TRUE)

NextBatch ==
    \/ BDoBatchTranslate
    \/ BDoBatchSettles
    \/ Tick

SpecBatch == InitBatch /\ [][NextBatch]_vars

\* C5: no call of a public operation ends by throwing (a rejected promise).
\* translate and clearCache catch every failure in the model as in the code;
\* batchTranslate runs its cache check outside its try block.
C5_NeverThrows ==
    \A b \in 1..Len(batches) : batches[b].outcome /= "rejected"

\* the positions of the cache hits of a batch call
Hits(batch) == { i \in 1..Len(batch.items) : batch.items[i].translated }

\* every item of the batch call has a text
WellFormed(batch) ==
    \A i \in 1..Len(batch.items) : batch.items[i].text \notin {Undefined, Null}

\* the uncached items of a batch call, in input order, as request items
Uncached(batch) ==
    LET rest == SelectSeq(batch.items, LAMBDA item : ~item.translated)
    IN  [i \in 1..Len(rest) |->
            [id |-> rest[i].id, text |-> rest[i].text,
             sourceLanguage |-> rest[i].sourceLanguage,
             targetLanguage |-> rest[i].targetLanguage]]

\* the batch call got a list of results from a successful response
CompletedSync(batch) ==
    /\ batch.outcome = "resolved"
    /\ batch.req /= 0
    /\ net[batch.req].resp.kind = "ok"
    /\ batch.result.jobId = NoJob
    /\ batch.result.error = NoError

\* C6: a batchTranslate of N items with texts, K < N of them cache hits, makes
\* exactly one network call, whose payload is the N-K uncached items in input
\* order; on synchronous completion the results list has N entries and its
\* i-th entry carries the id of the i-th item.
C6_OneCallForUncached ==
    \A b \in 1..Len(batches) :
        LET batch == batches[b]
            N == Len(batch.items)
            K == Cardinality(Hits(batch))
        IN  (N > 0 /\ K < N /\ WellFormed(batch))
            => /\ { r \in 1..Len(net) : net[r].endpoint = "batch" /\ net[r].owner = b }
                      = { batch.req }
               /\ batch.req \in 1..Len(net)
               /\ Len(net[batch.req].payload) = N - K
               /\ net[batch.req].payload = Uncached(batch)
               /\ CompletedSync(batch) =>
                      /\ Len(batch.result.results) = N
                      /\ \A i \in 1..N : batch.result.results[i].id = batch.items[i].id

\* a batch of two items, the second one a cache hit with caching enabled and
\* force not set, has completed with one network call carrying the first item
C6_Witness ==
    \E b \in 1..Len(batches) :
        /\ useLocalCache /\ ~batches[b].force
        /\ Len(batches[b].items) = 2
        /\ Hits(batches[b]) = {2}
        /\ CompletedSync(batches[b])
        /\ Len(net[batches[b].req].payload) = 1
        /\ batches[b].result.results[1].translated
        /\ batches[b].result.results[2].fromCache

\* C7: when the network call of batchTranslate fails, the result has a
\* top-level error, an error result for every uncached item and the cached
\* result (translated: true, fromCache: true, cached text) for every cache hit.
C7_CachedItemsSurviveFailure ==
    \A b \in 1..Len(batches) :
        LET batch == batches[b] IN
        ( /\ batch.outcome = "resolved"
          /\ batch.req /= 0
          /\ net[batch.req].resp.kind \in {"http", "reject"} )
        => /\ batch.result.error = FailureMessage(net[batch.req].resp)
           /\ Len(batch.result.results) = Len(batch.items)
           /\ \A i \in 1..Len(batch.items) :
                  batch.result.results[i] =
                      IF batch.items[i].translated
                      THEN ItemResult(batch.items[i].id, batch.items[i].translatedText,
                                      TRUE, TRUE, NoError)
                      ELSE ItemResult(batch.items[i].id, batch.items[i].text,
                                      FALSE, FALSE, FailureMessage(net[batch.req].resp))

\* C12: a batchTranslate call with an empty or absent list of items returns
\* {results: []} without a network call and leaves the cache as it was
C12_EmptyBatchIsNoOp ==
    [][ ( /\ Len(batches') = Len(batches) + 1
          /\ batches'[Len(batches')].input \in { << >>, AbsentItems } )
        => /\ batches'[Len(batches')].outcome = "resolved"
           /\ batches'[Len(batches')].result = BatchResult(<< >>, NoError, NoJob, "")
           /\ batches'[Len(batches')].req = 0
           /\ net' = net
           /\ storage' = storage
           /\ pendingRequests' = pendingRequests ]_vars

\* batchTranslate(undefined) has returned {results: []} with caching enabled
\* and translations in the cache
C12_Witness ==
    \E b \in 1..Len(batches) :
        /\ batches[b].input = AbsentItems
        /\ batches[b].outcome = "resolved"
        /\ batches[b].result.results = << >>
        /\ useLocalCache
        /\ storage = CachedAB
        /\ net = << >>

\* the key under which the cache holds the translation of a processed item
ItemKey(item) ==
    StorageKey(GenerateCacheKey(item.sourceLanguage, item.targetLanguage, item.text))

\* C13: a batchTranslate call whose items are all cache hits makes no
\* network call and returns, for the i-th item, the result with its id, the
\* text the cache held for it, translated: true and fromCache: true
C13_AllCachedIsLocal ==
    [][ ( /\ Len(batches') = Len(batches) + 1
          /\ Len(batches'[Len(batches')].items) > 0
          /\ Hits(batches'[Len(batches')]) = 1..Len(batches'[Len(batches')].items) )
        => LET batch == batches'[Len(batches')] IN
           /\ batch.outcome = "resolved"
           /\ batch.req = 0
           /\ net' = net
           /\ batch.result.error = NoError
           /\ Len(batch.result.results) = Len(batch.items)
           /\ \A i \in 1..Len(batch.items) :
                  /\ ItemKey(batch.items[i]) \in DOMAIN storage
                  /\ batch.result.results[i] =
                         ItemResult(batch.items[i].id, storage[ItemKey(batch.items[i])].value,
                                    TRUE, TRUE, NoError) ]_vars

\* a batch of "A" and "BB" from French, both in the cache with different
\* translations, has returned the two cached translations in that order
C13_Witness ==
    \E b \in 1..Len(batches) :
        /\ Len(batches[b].items) = 2
        /\ Hits(batches[b]) = {1, 2}
        /\ batches[b].outcome = "resolved"
        /\ batches[b].req = 0
        /\ batches[b].result.results[1].text = Hola
        /\ batches[b].result.results[2].text = Salut
        /\ net = << >>

\* C16: when the response to an asynchronous batchTranslate carries a job
\* handle, the call returns {jobId, status: "processing"} and writes nothing
\* to the cache, whether or not the response carries results as well
C16_JobHandleSkipsCache ==
    [][ \A r \in 1..Len(net) :
          ( /\ net[r].endpoint = "batch"
            /\ ~net[r].settled
            /\ net'[r].settled
            /\ net[r].async
            /\ net'[r].resp.kind = "ok"
            /\ net'[r].resp.jobId /= NoJob )
          => /\ batches'[net[r].owner].outcome = "resolved"
             /\ batches'[net[r].owner].result =
                    BatchResult(<< >>, NoError, net'[r].resp.jobId, "processing")
             /\ storage' = storage ]_vars

\* with caching enabled, an asynchronous batch has returned the job handle
\* of a response that carried a translated result as well
C16_Witness ==
    \E b \in 1..Len(batches) :
        /\ useLocalCache
        /\ batches[b].async
        /\ batches[b].outcome = "resolved"
        /\ batches[b].result.jobId = "job-1"
        /\ batches[b].result.status = "processing"
        /\ net[batches[b].req].resp.results /= << >>
        /\ net[batches[b].req].resp.results[1].translated

\* C17: when a batchTranslate call completes synchronously (a list of results
\* from a successful response, without a top-level error), its i-th result is the cached result for a cache hit, the server's result
\* with the item's id for an uncached item the server answered, and
\* {translated: false, error: "Translation failed"} with the item's id and
\* text for an uncached item the server left out
C17_MergeByPosition ==
    \A b \in 1..Len(batches) :
        LET batch == batches[b]
            server == net[batch.req].resp.results
        IN  CompletedSync(batch)
            => /\ Len(batch.result.results) = Len(batch.items)
               /\ \A i \in 1..Len(batch.items) :
                      LET item == batch.items[i]
                          result == batch.result.results[i]
                      IN  IF item.translated
                          THEN result = ItemResult(item.id, item.translatedText,
                                                   TRUE, TRUE, NoError)
                          ELSE IF \E j \in 1..Len(server) : server[j].id = item.id
                          THEN \E j \in 1..Len(server) :
                                   server[j].id = item.id /\ result = server[j]
                          ELSE result = ItemResult(item.id, item.text, FALSE, FALSE,
                                                   "Translation failed")

\* a batch of two uncached items has completed on a response that answered
\* the first item only
C17_Witness ==
    \E b \in 1..Len(batches) :
        /\ CompletedSync(batches[b])
        /\ Len(batches[b].items) = 2
        /\ Hits(batches[b]) = {}
        /\ Len(net[batches[b].req].resp.results) = 1
        /\ batches[b].result.results[1].translated
        /\ batches[b].result.results[1].text = Hola
        /\ batches[b].result.results[2] =
               ItemResult(batches[b].items[2].id, TextBB, FALSE, FALSE, "Translation failed")

(***************************************************************************)
(* SpecClear: clearCache over a storage that holds entries of another      *)
(* client and of other programs, and entries that translate adds.          *)
(***************************************************************************)
InitClear == InitWith(BOOLEAN, {"es"}, {EmptyMap, SeededStorage})

CDoTranslate == \E optTarget \in {NoLang, "de"} : Translate(TextA, NoLang, optTarget, FALSE)

CDoTranslateSettles ==
    \E r \in 1..Len(net), resp \in {OkText(Hola), Rejected("Network timeout")} :
        TranslateSettles(r, resp, TRUE)

CDoClearCache == \E targetLanguage \in {NoLang, "es", "de"} : ClearCache(targetLanguage)

NextClear ==
    \/ CDoTranslate
    \/ CDoTranslateSettles
    \/ CDoClearCache

SpecClear == InitClear /\ [][NextClear]_vars

\* the stored key starts with the reserved prefix "i18n_"
HasReservedPrefix(k) == k[1] = "i18n_"

\* the stored key is `i18n_${sourceLanguage}:${targetLanguage}:${hash}`
IsTranslationKey(k, sourceLanguage, targetLanguage) ==
    /\ Len(k) > 5
    /\ k[1] = "i18n_" /\ k[2] = sourceLanguage /\ k[3] = ":"
    /\ k[4] = targetLanguage /\ k[5] = ":"

\* the call removed exactly the stored keys in removed and changed nothing else
RemovedExactly(clear, removed) ==
    /\ DOMAIN clear.after = DOMAIN clear.before \ removed
    /\ \A k \in DOMAIN clear.after : clear.after[k] = clear.before[k]

\* C8 as stated: clearCache() removes every stored entry whose key starts with
\* the reserved prefix and leaves every other stored key and value unchanged.
C8_ClearAll ==
    \A c \in 1..Len(clears) :
        clears[c].targetLanguage = NoLang
        => RemovedExactly(clears[c],
               { k \in DOMAIN clears[c].before : HasReservedPrefix(k) })

\* C8 as amended: with caching enabled, clearCache() removes every stored entry
\* whose key starts with the reserved prefix and leaves every other stored key
\* and value unchanged.
C8_ClearAllWhenEnabled ==
    \A c \in 1..Len(clears) :
        (useLocalCache /\ clears[c].targetLanguage = NoLang)
        => RemovedExactly(clears[c],
               { k \in DOMAIN clears[c].before : HasReservedPrefix(k) })

\* clearCache() has run over translations cached by this client and by another
\* one, the language list and another program's key, and only the last is left
C8_Witness ==
    \E c \in 1..Len(clears) :
        /\ useLocalCache
        /\ clears[c].targetLanguage = NoLang
        /\ { OtherKey, LanguagesKey, StorageKey(GenerateCacheKey("en", "es", TextA)),
             StorageKey(GenerateCacheKey("fr", "es", TextA)) } \subseteq DOMAIN clears[c].before
        /\ DOMAIN clears[c].after = { OtherKey }

\* C9 as stated: clearCache(targetLanguage) removes exactly the entries whose
\* key is (default source language, targetLanguage, any hash), and leaves
\* every other stored key and value unchanged.
C9_ClearLanguage ==
    \A c \in 1..Len(clears) :
        clears[c].targetLanguage /= NoLang
        => RemovedExactly(clears[c],
               { k \in DOMAIN clears[c].before :
                   IsTranslationKey(k, defaultSourceLanguage, clears[c].targetLanguage) })

\* C9 as amended: with caching enabled, clearCache(targetLanguage) removes
\* exactly the entries whose key is (default source language, targetLanguage,
\* any hash), and leaves every other stored key and value unchanged.
C9_ClearLanguageWhenEnabled ==
    \A c \in 1..Len(clears) :
        (useLocalCache /\ clears[c].targetLanguage /= NoLang)
        => RemovedExactly(clears[c],
               { k \in DOMAIN clears[c].before :
                   IsTranslationKey(k, defaultSourceLanguage, clears[c].targetLanguage) })

\* clearCache("es") has removed the translations from English into Spanish and
\* kept those from French into Spanish and from English into German, the
\* language list and another program's key
C9_Witness ==
    \E c \in 1..Len(clears) :
        /\ useLocalCache
        /\ clears[c].targetLanguage = "es"
        /\ StorageKey(GenerateCacheKey("en", "es", TextA)) \in DOMAIN clears[c].before
        /\ StorageKey(GenerateCacheKey("en", "es", TextA)) \notin DOMAIN clears[c].after
        /\ { OtherKey, LanguagesKey, StorageKey(GenerateCacheKey("fr", "es", TextA)),
             StorageKey(GenerateCacheKey("en", "de", TextA)) } \subseteq DOMAIN clears[c].after

(***************************************************************************)
(* SpecLanguages: getLanguages against every response and the clock.       *)
(***************************************************************************)
\* the responses of GET /api/languages
LanguagesResponses ==
    { LanguagesResponse("ok", "", LanguageList), LanguagesResponse("ok", "", << >>),
      LanguagesResponse("http", "Rate limit exceeded", << >>),
      LanguagesResponse("reject", "Network timeout", << >>) }

InitLanguages == InitWith(BOOLEAN, {"es"}, {EmptyMap})

LDoLanguagesSettles ==
    \E r \in 1..Len(net), resp \in LanguagesResponses : LanguagesSettles(r, resp, TRUE)

NextLanguages ==
    \/ GetLanguages
    \/ LDoLanguagesSettles
    \/ Tick

SpecLanguages == InitLanguages /\ [][NextLanguages]_vars

\* a fetch of the language list has succeeded no longer than the TTL ago
FetchedWithinTTL ==
    \E r \in 1..Len(net) :
        /\ net[r].endpoint = "languages"
        /\ net[r].settled
        /\ net[r].resp.kind = "ok"
        /\ now <= net[r].settledAt + cacheTTL * 1000

\* a getLanguages call made in this step returns the list that the cache
\* holds, without a network call
ReturnsCachedList ==
    /\ LanguagesKey \in DOMAIN storage
    /\ languageCalls'[Len(languageCalls')].how = "hit"
    /\ languageCalls'[Len(languageCalls')].done
    /\ languageCalls'[Len(languageCalls')].outcome = "resolved"
    /\ languageCalls'[Len(languageCalls')].result = storage[LanguagesKey].value
    /\ net' = net

\* the step that settles a failed fetch of the language list returns the
\* empty list to its caller, raises nothing and leaves the storage alone
FailedFetchReturnsEmpty ==
    \A r \in 1..Len(net) :
        ( /\ net[r].endpoint = "languages"
          /\ ~net[r].settled
          /\ net'[r].settled
          /\ net'[r].resp.kind /= "ok" )
        => /\ languageCalls'[net[r].owner].done
           /\ languageCalls'[net[r].owner].outcome = "resolved"
           /\ languageCalls'[net[r].owner].result = << >>
           /\ storage' = storage

\* the step that settles a successful fetch of the language list leaves the
\* fetched list in the cache
FetchedListIsCached ==
    \A r \in 1..Len(net) :
        ( /\ net[r].endpoint = "languages"
          /\ ~net[r].settled
          /\ net'[r].settled
          /\ net'[r].resp.kind = "ok" )
        => /\ LanguagesKey \in DOMAIN storage'
           /\ storage'[LanguagesKey].value = net'[r].resp.languages

\* C14 as stated: after a successful fetch of the language list, every
\* getLanguages call made within the TTL returns the cached list without a
\* network call; a failed fetch returns the empty list, raises nothing and
\* writes nothing to the cache
C14_LanguagesFromCache ==
    [][ /\ (Len(languageCalls') = Len(languageCalls) + 1 /\ FetchedWithinTTL)
            => ReturnsCachedList
        /\ FailedFetchReturnsEmpty ]_vars

\* C14, amended: with caching enabled, a successful fetch leaves the list in
\* the cache and every getLanguages call made within the TTL of a successful
\* fetch returns the cached list without a network call; with or without
\* caching, a failed fetch returns the empty list, raises nothing and writes
\* nothing to the cache
C14_LanguagesFromCacheWhenEnabled ==
    [][ /\ (Len(languageCalls') = Len(languageCalls) + 1 /\ FetchedWithinTTL
                /\ useLocalCache)
            => ReturnsCachedList
        /\ useLocalCache => FetchedListIsCached
        /\ FailedFetchReturnsEmpty ]_vars

\* with caching enabled, one getLanguages call has fetched the list and a
\* later one, made when the entry was one TTL old, got it from the cache
C14_Witness ==
    /\ useLocalCache
    /\ Len(languageCalls) = 2
    /\ net[languageCalls[1].req].resp = LanguagesResponse("ok", "", LanguageList)
    /\ languageCalls[1].result = LanguageList
    /\ languageCalls[2].how = "hit"
    /\ languageCalls[2].result = LanguageList
    /\ languageCalls[2].at = net[languageCalls[1].req].settledAt + cacheTTL * 1000
    /\ Len(net) = 1

(***************************************************************************)
(* SpecStatus: checkJobStatus against every response, next to translate    *)
(* calls that fill the cache and the pending registry.                     *)
(***************************************************************************)
\* the responses of GET /api/translate/status/{jobId}
StatusResponses(jobId) ==
    { StatusResponse("ok", "", JobStatus(jobId, "processing", << >>, NoError)),
      StatusResponse("ok", "",
          JobStatus(jobId, "completed",
                    << ItemResult(1, Hola, TRUE, FALSE, NoError) >>, NoError)),
      StatusResponse("ok", "", JobStatus(jobId, "failed", << >>, "Job failed")),
      StatusResponse("http", "", NoJobStatus),
      StatusResponse("http", "Job not found", NoJobStatus),
      StatusResponse("reject", "Network timeout", NoJobStatus) }

InitStatus == InitWith(BOOLEAN, {"es"}, {CachedA})

JDoTranslate == Translate(TextA, NoLang, NoLang, TRUE)

JDoTranslateSettles == \E r \in 1..Len(net) : TranslateSettles(r, OkText(Salut), TRUE)

JDoCheckJobStatus == CheckJobStatus("job-1")

JDoStatusSettles ==
    \E r \in 1..Len(net) :
        \E resp \in StatusResponses(net[r].payload) : StatusSettles(r, resp)

NextStatus ==
    \/ JDoTranslate
    \/ JDoTranslateSettles
    \/ JDoCheckJobStatus
    \/ JDoStatusSettles

SpecStatus == InitStatus /\ [][NextStatus]_vars

ReuseResults(payload) ==
    [1..Len(payload) ->
        {"translated", "empty", "failed"}]

ReuseResponses(payload) ==
    { Response("ok", Undefined, "",
               [i \in 1..Len(payload) |->
                   IF outcome[i] = "translated"
                   THEN ItemResult(payload[i].id, Hola, TRUE, FALSE, NoError)
                   ELSE IF outcome[i] = "empty"
                   THEN ItemResult(payload[i].id, EmptyText, TRUE, FALSE, NoError)
                   ELSE ItemResult(payload[i].id, payload[i].text, FALSE, FALSE,
                                   "Unsupported")],
               NoJob)
      : outcome \in ReuseResults(payload) }

InitReuse == InitWith(BOOLEAN, {"es"}, {EmptyMap})

RDoBatchTranslate ==
    BatchTranslate(<< TranslationItem(1, TextA, NoLang, NoLang),
                      TranslationItem(2, TextAa, "fr", NoLang) >>, FALSE, FALSE)

RDoBatchSettles ==
    \E r \in 1..Len(net) :
        \E resp \in ReuseResponses(net[r].payload) : BatchSettles(r, resp, TRUE)

RDoTranslate ==
    \/ Translate(TextA, NoLang, NoLang, FALSE)
    \/ Translate(TextAa, "fr", NoLang, FALSE)

RDoTranslateSettles == \E r \in 1..Len(net) : TranslateSettles(r, OkText(Salut), TRUE)

NextReuse ==
    \/ RDoBatchTranslate
    \/ RDoBatchSettles
    \/ RDoTranslate
    \/ RDoTranslateSettles
    \/ Tick

SpecReuse == InitReuse /\ [][NextReuse]_vars

\* with caching enabled, every translate call without force that was made
\* after a batch call completed synchronously, no later than one TTL after
\* it, for the languages and text of an item the server returned as
\* translated, is a cache hit that returns the server's text without a
\* network call
BatchResultsAreReused ==
    \A b \in 1..Len(batches), c \in 1..Len(calls) :
        LET batch == batches[b]
            call == calls[c]
        IN  ( /\ useLocalCache
              /\ CompletedSync(batch)
              /\ net[batch.req].seen = 0
              /\ ~call.force
              /\ call.at <= net[batch.req].settledAt + cacheTTL * 1000 )
            => \A i \in 1..Len(batch.items), j \in 1..Len(net[batch.req].resp.results) :
                   LET item == batch.items[i]
                       served == net[batch.req].resp.results[j]
                   IN  ( /\ served.id = item.id
                         /\ served.translated
                         /\ item.text = call.text
                         /\ item.sourceLanguage = call.sourceLanguage
                         /\ item.targetLanguage = call.targetLanguage )
                       => /\ call.how = "hit"
                          /\ call.req = 0
                          /\ call.result = Result(served.text, TRUE, TRUE, NoError)

\* the step that completes a batch call writes no cache entry for an item
\* the server returned with translated: false
UntranslatedAreNotCached ==
    \A r \in 1..Len(net) :
        (net[r].endpoint = "batch" /\ ~net[r].settled /\ net'[r].settled
            /\ net'[r].resp.kind = "ok")
        => \A i \in 1..Len(batches[net[r].owner].items),
              j \in 1..Len(net'[r].resp.results) :
               ( /\ net'[r].resp.results[j].id = batches[net[r].owner].items[i].id
                 /\ ~net'[r].resp.results[j].translated
                 /\ ItemKey(batches[net[r].owner].items[i]) \notin DOMAIN storage )
               => ItemKey(batches[net[r].owner].items[i]) \notin DOMAIN storage'

\* C18: after a synchronous batchTranslate with caching enabled, every item
\* the server returned as translated is cached under the key of its own
\* source language, target language and text, so that a later translate for
\* the same triple within the TTL is a cache hit returning that text without
\* a network call; items returned with translated: false are not cached
C18_BatchResultsAreCached ==
    [][ BatchResultsAreReused' /\ UntranslatedAreNotCached ]_vars
(***************************************************************************)
(* SpecCollide: translate of "Aa" and of "BB", two texts with the same     *)
(* _simpleHash (0x840) and so with the same cache key.                     *)
(***************************************************************************)
InitCollide == InitWith(BOOLEAN, {"es"}, {EmptyMap})

KDoTranslate ==
    \E text \in {TextAa, TextBB}, force \in BOOLEAN : Translate(text, NoLang, NoLang, force)

KDoTranslateSettles ==
    \E r \in 1..Len(net), resp \in {OkText(Hola), HttpError(""), Rejected("Network timeout")} :
        TranslateSettles(r, resp, TRUE)

NextCollide ==
    \/ KDoTranslate
    \/ KDoTranslateSettles
    \/ Tick

SpecCollide == InitCollide /\ [][NextCollide]_vars

\* C19: every result that translate has returned is well formed: fromCache
\* comes with translated: true only; an error comes with translated: false
\* only, and then the text is the text the caller passed; translated: false
\* without an error is returned only by a call that made and awaited no
\* network call, for an empty text, identical languages or no target language
C19_ResultsWellFormed ==
    \A c \in 1..Len(calls) :
        LET call == calls[c] IN
        call.done
        => /\ call.result.fromCache => call.result.translated
           /\ call.result.error /= NoError
                  => ~call.result.translated /\ call.result.text = call.text
           /\ (~call.result.translated /\ call.result.error = NoError)
                  => /\ call.req = 0
                     /\ \/ call.text \in {EmptyText, Undefined, Null}
                        \/ call.targetLanguage = NoLang
                        \/ call.sourceLanguage = call.targetLanguage
\* the translate call made in this step looked up an entry that the storage held
LookedUpEntry ==
    /\ Len(calls') = Len(calls) + 1
    /\ useLocalCache
    /\ ~calls'[Len(calls')].force
    /\ calls'[Len(calls')].how /= "noop"
    /\ ItemKey(calls'[Len(calls')]) \in DOMAIN storage
    /\ storage[ItemKey(calls'[Len(calls')])].kind = "item"

\* C20 as stated: a lookup of an entry with expires <= now, the instant of
\* expiry included, finds nothing and removes the entry; a lookup of an entry
\* with expires > now returns its value and leaves the storage as it was
C20_ExpiredAtExpiry ==
    [][ LookedUpEntry =>
        LET key == ItemKey(calls'[Len(calls')]) IN
        IF storage[key].expires <= now
        THEN /\ calls'[Len(calls')].cached = Null
             /\ key \notin DOMAIN storage'
        ELSE /\ calls'[Len(calls')].cached = storage[key].value
             /\ storage' = storage ]_vars

\* C20, amended: a lookup of an entry with expires < now finds nothing and
\* removes the entry; a lookup of an entry with expires >= now, the instant of
\* expiry included, returns its value and leaves the storage as it was
C20_ExpiredAfterExpiry ==
    [][ LookedUpEntry =>
        LET key == ItemKey(calls'[Len(calls')]) IN
        IF storage[key].expires < now
        THEN /\ calls'[Len(calls')].cached = Null
             /\ key \notin DOMAIN storage'
             /\ \A k \in DOMAIN storage \ {key} :
                    k \in DOMAIN storage' /\ storage'[k] = storage[k]
        ELSE /\ calls'[Len(calls')].cached = storage[key].value
             /\ storage' = storage ]_vars

\* a translate call made at the instant of expiry of the entry for its key
\* got the value of the entry, and the entry is still in the storage
C20_Witness ==
    \E c \in 1..Len(calls) :
        /\ calls[c].cached = Hola
        /\ calls[c].how = "hit"
        /\ ItemKey(calls[c]) \in DOMAIN storage
        /\ storage[ItemKey(calls[c])].expires = calls[c].at
        /\ calls[c].at > 0

(***************************************************************************)
(* The pending registry over the calls of SpecEarly.                       *)
(***************************************************************************)
\* the cache key of a translate network call
RequestKey(request) ==
    GenerateCacheKey(request.payload[1].sourceLanguage, request.payload[1].targetLanguage,
                     request.payload[1].text)

\* the translate network calls that have not settled
Unsettled == { r \in 1..Len(net) : net[r].endpoint = "translate" /\ ~net[r].settled }

\* the registry holds a key exactly while a translate network call for that
\* key has not settled, and maps the key to that call
PendingIsInFlight ==
    /\ \A key \in DOMAIN pendingRequests :
           /\ pendingRequests[key] \in Unsettled
           /\ RequestKey(net[pendingRequests[key]]) = key
    /\ \A r \in Unsettled :
           /\ RequestKey(net[r]) \in DOMAIN pendingRequests
           /\ pendingRequests[RequestKey(net[r])] = r
    /\ Unsettled = {} => pendingRequests = EmptyMap

\* a translate call that is made while no network call for its key is in
\* flight, and that is neither a no-op nor a cache hit, starts a network call
\* of its own
MissStartsNewCall ==
    ( /\ Len(calls') = Len(calls) + 1
      /\ calls'[Len(calls')].how \notin {"noop", "hit"}
      /\ \A r \in Unsettled :
             RequestKey(net[r]) /= GenerateCacheKey(calls'[Len(calls')].sourceLanguage,
                                                    calls'[Len(calls')].targetLanguage,
                                                    calls'[Len(calls')].text) )
    => /\ calls'[Len(calls')].how = "started"
       /\ Len(net') = Len(net) + 1
       /\ calls'[Len(calls')].req = Len(net')
       /\ ~net'[Len(net')].settled

\* C21: the pending registry holds an entry for a key exactly while a
\* translate network call for that key is unsettled: the entry is there from
\* the step that starts the call to the step that settles it, whatever the
\* response; when every call has settled the registry is empty, and a later
\* translate that misses the cache starts a new network call
C21_PendingWhileInFlight ==
    [][ PendingIsInFlight' /\ MissStartsNewCall ]_vars

\* a network call for a key has failed and its registry entry is gone; a
\* later translate for the same key has started a second network call, which
\* is the one the registry holds
C21_Witness ==
    \E c, d \in 1..Len(calls) :
        /\ c < d
        /\ SameTriple(calls[c], calls[d])
        /\ calls[c].done
        /\ calls[c].result.error = "Network timeout"
        /\ calls[d].how = "started"
        /\ calls[d].req /= calls[c].req
        /\ ~net[calls[d].req].settled
        /\ DOMAIN pendingRequests = { RequestKey(net[calls[d].req]) }
        /\ pendingRequests[RequestKey(net[calls[d].req])] = calls[d].req

\* C22: for two distinct texts with the same languages and the same hash, a
\* translate call for one of them never joins the network call of the other
\* and never gets the cached translation of the other: a call that joins
\* awaits a network call for its own text, and a call that hits the cache
\* gets an entry that a successful network call for its own text wrote
C22_CollisionIsOnlyAMiss ==
    \A c \in 1..Len(calls) :
        /\ calls[c].how = "joined" => net[calls[c].req].payload[1].text = calls[c].text
        /\ calls[c].how = "hit" =>
               \E r \in 1..Len(net) :
                   /\ net[r].endpoint = "translate"
                   /\ net[r].settled
                   /\ net[r].resp.kind = "ok"
                   /\ net[r].seen < c
                   /\ net[r].payload[1].text = calls[c].text

\* the storage keys whose entry this step wrote: new keys and changed entries
Written == { k \in DOMAIN storage' : k \notin DOMAIN storage \/ storage'[k] /= storage[k] }

\* the translate network call r settles in this step with a translation, caching
\* is enabled, and k is the key of the call that issued r
SettlesTranslated(r, k) ==
    /\ net[r].endpoint = "translate"
    /\ ~net[r].settled
    /\ net'[r].settled
    /\ net'[r].resp.kind = "ok"
    /\ useLocalCache
    /\ k = ItemKey(calls[net[r].owner])

\* every entry of the storage holds the text of a successful response to a
\* translate network call for the key of the entry
EntriesAreTranslations ==
    \A k \in DOMAIN storage :
        \E r \in 1..Len(net) :
            /\ net[r].endpoint = "translate"
            /\ net[r].settled
            /\ net[r].resp.kind = "ok"
            /\ StorageKey(RequestKey(net[r])) = k
            /\ storage[k].kind = "item"
            /\ storage[k].value = net[r].resp.text

\* C23: translate writes a cache entry only in the step that settles a
\* network call with a translation while caching is enabled, under the key of
\* the call that issued it, with the translated text and the expiry
\* now + cacheTTL; so every entry of a cache that started empty holds the text
\* of a successful response for its key, and neither an error result nor a
\* no-op result is ever stored
C23_WritesOnlyTranslations ==
    [][ /\ \A k \in Written :
               \E r \in 1..Len(net) :
                   /\ SettlesTranslated(r, k)
                   /\ storage'[k] = Item(net'[r].resp.text, now + cacheTTL * 1000)
        /\ EntriesAreTranslations' ]_vars

\* a network call has failed and left the cache empty; one TTL later a second
\* one has succeeded, and the cache holds its text with the expiry of that write
C23_Witness ==
    \E c, d \in 1..Len(calls) :
        /\ calls[c].done
        /\ calls[c].result.error /= NoError
        /\ calls[d].done
        /\ calls[d].result = Result(Hola, TRUE, FALSE, NoError)
        /\ net[calls[d].req].settledAt = cacheTTL * 1000
        /\ DOMAIN storage = { ItemKey(calls[d]) }
        /\ storage[ItemKey(calls[d])] = Item(Hola, 2 * cacheTTL * 1000)

(***************************************************************************)
(* SpecFaulty: translate, batchTranslate and getLanguages with caching     *)
(* enabled over a storage that fails: every entry they read is a string    *)
(* that JSON.parse rejects, and every write may throw (quota exceeded).    *)
(* A storage that is unavailable behaves as the empty one whose every      *)
(* write throws: getItem and setItem throw inside the try blocks of        *)
(* _getFromLocalCache and _saveToLocalCache.                               *)
(***************************************************************************)
\* unparsable strings under the keys that the calls of this specification read
CorruptStorage ==
    [k \in {StorageKey(GenerateCacheKey("en", "es", TextA)), LanguagesKey} |-> Raw]

InitFaulty == InitWith({TRUE}, {"es"}, {EmptyMap, CorruptStorage})

\* the calls made so far are fewer than the bound of this specification
MoreOps ==
    Len(calls) + Len(batches) + Len(languageCalls) + Len(statusCalls) + Len(clears) < MaxOps

FDoTranslate == MoreOps /\ Translate(TextA, NoLang, NoLang, FALSE)

FDoTranslateSettles ==
    \E r \in 1..Len(net), resp \in {OkText(Hola), Rejected("Network timeout")},
       quotaOk \in BOOLEAN :
        TranslateSettles(r, resp, quotaOk)

FDoBatchTranslate ==
    MoreOps /\ BatchTranslate(<< TranslationItem(1, TextA, NoLang, NoLang) >>, FALSE, FALSE)

FDoGetLanguages == MoreOps /\ GetLanguages

FDoBatchSettles ==
    \E r \in 1..Len(net), quotaOk \in BOOLEAN :
        \E resp \in {AllTranslated(net[r].payload), Rejected("Network timeout")} :
            BatchSettles(r, resp, quotaOk)

FDoLanguagesSettles ==
    \E r \in 1..Len(net), quotaOk \in BOOLEAN :
        LanguagesSettles(r, LanguagesResponse("ok", "", LanguageList), quotaOk)

NextFaulty ==
    \/ FDoTranslate
    \/ FDoTranslateSettles
    \/ FDoBatchTranslate
    \/ FDoBatchSettles
    \/ FDoGetLanguages
    \/ FDoLanguagesSettles

SpecFaulty == InitFaulty /\ [][NextFaulty]_vars

\* the storage holds an entry under key k that cannot be read
Unreadable(k) == k \in DOMAIN storage /\ storage[k].kind = "raw"

\* no call of translate, batchTranslate or getLanguages has ended by throwing
NothingThrown ==
    /\ \A b \in 1..Len(batches') : batches'[b].outcome /= "rejected"
    /\ \A c \in 1..Len(languageCalls') : languageCalls'[c].outcome /= "rejected"

\* a call made in this step whose entry cannot be read goes to the network
FailedReadIsAMiss ==
    /\ ( /\ Len(calls') = Len(calls) + 1
         /\ Unreadable(ItemKey(calls'[Len(calls')])) )
       => /\ calls'[Len(calls')].cached = Null
          /\ calls'[Len(calls')].how \in {"started", "joined"}
          /\ calls'[Len(calls')].req \in 1..Len(net')
    /\ ( /\ Len(batches') = Len(batches) + 1
         /\ \A i \in 1..Len(batches'[Len(batches')].items) :
                Unreadable(ItemKey(batches'[Len(batches')].items[i])) )
       => /\ Hits(batches'[Len(batches')]) = {}
          /\ batches'[Len(batches')].outcome = "pending"
          /\ batches'[Len(batches')].req = Len(net')
          /\ Len(net') = Len(net) + 1
    /\ ( /\ Len(languageCalls') = Len(languageCalls) + 1
         /\ Unreadable(LanguagesKey) )
       => /\ languageCalls'[Len(languageCalls')].how = "started"
          /\ languageCalls'[Len(languageCalls')].req = Len(net')
          /\ Len(net') = Len(net) + 1

\* the step that settles a network call with a successful response returns
\* the result of that response to the caller, whether or not the write that
\* follows it succeeded
ResultIgnoresWrite ==
    \A r \in 1..Len(net) :
        (~net[r].settled /\ net'[r].settled /\ net'[r].resp.kind = "ok")
        => CASE net[r].endpoint = "translate" ->
                    /\ calls'[net[r].owner].done
                    /\ calls'[net[r].owner].result =
                           Result(net'[r].resp.text, TRUE, FALSE, NoError)
             [] net[r].endpoint = "batch" ->
                    /\ batches'[net[r].owner].outcome = "resolved"
                    /\ batches'[net[r].owner].result =
                           BatchResult(net'[r].resp.results, NoError, NoJob, "")
             [] net[r].endpoint = "languages" ->
                    /\ languageCalls'[net[r].owner].outcome = "resolved"
                    /\ languageCalls'[net[r].owner].result = net'[r].resp.languages
             [] OTHER -> TRUE

\* C24: a storage read or write that fails is not thrown to the caller; a
\* read that fails is a cache miss, so translate, batchTranslate and
\* getLanguages go to the network; a write that fails leaves the result of
\* the operation as it is when the write succeeds
C24_StorageFailuresAreSilent ==
    [][ NothingThrown /\ FailedReadIsAMiss /\ ResultIgnoresWrite ]_vars

\* over unparsable entries, translate, batchTranslate and getLanguages have
\* each gone to the network and returned the result of a successful response,
\* and every write has failed: the entries are still the unparsable ones
C24_Witness ==
    /\ storage = CorruptStorage
    /\ \E c \in 1..Len(calls) :
           calls[c].how = "started" /\ calls[c].done /\ calls[c].result.translated
    /\ \E b \in 1..Len(batches) :
           /\ CompletedSync(batches[b])
           /\ batches[b].result.results[1].translated
    /\ \E c \in 1..Len(languageCalls) :
           languageCalls[c].done /\ languageCalls[c].result = LanguageList

(***************************************************************************)
(* translate with force, over the calls of SpecTranslate.                  *)
(***************************************************************************)
\* the translate call made in this step has force set and is not a no-op
ForcedCall ==
    /\ Len(calls') = Len(calls) + 1
    /\ calls'[Len(calls')].force
    /\ calls'[Len(calls')].how /= "noop"

\* a forced call reads and changes no cache entry, and either joins the
\* network call in flight for its key or starts one
ForcedSkipsCache ==
    ForcedCall =>
        LET call == calls'[Len(calls')]
            cacheKey == GenerateCacheKey(call.sourceLanguage, call.targetLanguage, call.text)
        IN  /\ call.cached = Null
            /\ storage' = storage
            /\ IF \E r \in Unsettled : RequestKey(net[r]) = cacheKey
               THEN /\ call.how = "joined"
                    /\ call.req \in Unsettled
                    /\ RequestKey(net[call.req]) = cacheKey
                    /\ net' = net
               ELSE /\ call.how = "started"
                    /\ Len(net') = Len(net) + 1
                    /\ call.req = Len(net')

\* no forced call has returned a result from the cache
ForcedNeverFromCache ==
    \A c \in 1..Len(calls) : (calls[c].force /\ calls[c].done) => ~calls[c].result.fromCache

\* the network call r, awaited by a forced call, settles in this step with a
\* translation
ForcedSettles(r) ==
    /\ net[r].endpoint = "translate"
    /\ ~net[r].settled
    /\ net'[r].settled
    /\ net'[r].resp.kind = "ok"
    /\ \E c \in 1..Len(calls) : calls[c].req = r /\ calls[c].force

\* the step leaves, under the key of the network call r, the translation of
\* its response with the expiry now + cacheTTL
Overwrites(r) ==
    /\ StorageKey(RequestKey(net[r])) \in DOMAIN storage'
    /\ storage'[StorageKey(RequestKey(net[r]))] =
           Item(net'[r].resp.text, now + cacheTTL * 1000)

\* C25 as stated: a translate call with force set reads no cache entry and
\* never returns fromCache: true; it joins the network call in flight for its
\* key or starts one, and when that call succeeds the result overwrites the
\* cache entry with a new expiry
C25_ForceBypassesCache ==
    [][ /\ ForcedSkipsCache
        /\ ForcedNeverFromCache'
        /\ \A r \in 1..Len(net) : ForcedSettles(r) => Overwrites(r) ]_vars

\* C25, amended: as stated, but the result overwrites the cache entry only
\* when caching is enabled; with caching disabled the storage is left as it
\* was
C25_ForceBypassesCacheWhenEnabled ==
    [][ /\ ForcedSkipsCache
        /\ ForcedNeverFromCache'
        /\ \A r \in 1..Len(net) :
               ForcedSettles(r) =>
                   IF useLocalCache THEN Overwrites(r) ELSE storage' = storage ]_vars

\* a forced call made while the cache held a fresh translation for its key
\* has started a network call, and the response, one TTL later, has replaced
\* the entry: it holds the new text and expires two TTLs after the first write
C25_Witness ==
    \E c, d \in 1..Len(calls) :
        /\ calls[c].done
        /\ calls[c].result = Result(Hola, TRUE, FALSE, NoError)
        /\ net[calls[c].req].settledAt = 0
        /\ net[calls[c].req].seen < d
        /\ calls[d].force
        /\ calls[d].at = 0
        /\ calls[d].how = "started"
        /\ calls[d].done
        /\ calls[d].result = Result(EmptyText, TRUE, FALSE, NoError)
        /\ net[calls[d].req].settledAt = cacheTTL * 1000
        /\ ItemKey(calls[d]) \in DOMAIN storage
        /\ storage[ItemKey(calls[d])] = Item(EmptyText, 2 * cacheTTL * 1000)

(***************************************************************************)
(* SpecDisabled: every operation of a client built with                    *)
(* useLocalCache: false, over a storage that holds fresh entries under the *)
(* keys the operations would read, write or remove.                        *)
(***************************************************************************)
InitDisabled == InitWith({FALSE}, {"es"}, {SeededStorage})

XDoTranslate == MoreOps /\ Translate(TextBB, NoLang, NoLang, FALSE)

XDoTranslateSettles == \E r \in 1..Len(net) : TranslateSettles(r, OkText(Hola), TRUE)

XDoBatchTranslate ==
    MoreOps /\ BatchTranslate(<< TranslationItem(1, TextBB, NoLang, NoLang) >>, FALSE, FALSE)

XDoBatchSettles ==
    \E r \in 1..Len(net) : BatchSettles(r, AllTranslated(net[r].payload), TRUE)

XDoGetLanguages == MoreOps /\ GetLanguages

XDoLanguagesSettles ==
    \E r \in 1..Len(net) :
        LanguagesSettles(r, LanguagesResponse("ok", "", << 3 >>), TRUE)

XDoCheckJobStatus == MoreOps /\ CheckJobStatus("job-1")

XDoStatusSettles ==
    \E r \in 1..Len(net) :
        StatusSettles(r, StatusResponse("ok", "",
            JobStatus("job-1", "completed",
                      << ItemResult(1, Hola, TRUE, FALSE, NoError) >>, NoError)))

XDoClearCache == \E targetLanguage \in {NoLang, "es"} : MoreOps /\ ClearCache(targetLanguage)

NextDisabled ==
    \/ XDoTranslate
    \/ XDoTranslateSettles
    \/ XDoBatchTranslate
    \/ XDoBatchSettles
    \/ XDoGetLanguages
    \/ XDoLanguagesSettles
    \/ XDoCheckJobStatus
    \/ XDoStatusSettles
    \/ XDoClearCache

SpecDisabled == InitDisabled /\ [][NextDisabled]_vars

\* the call made in this step, if any, has read no entry of the storage: a
\* translate call made no lookup and is no cache hit, a batch call has no
\* cache hit, a getLanguages call went to the network
NothingRead ==
    /\ Len(calls') = Len(calls) + 1
           => /\ calls'[Len(calls')].cached = Null
              /\ calls'[Len(calls')].how /= "hit"
    /\ Len(batches') = Len(batches) + 1
           => /\ Hits(batches'[Len(batches')]) = {}
              /\ batches'[Len(batches')].req = Len(net')
    /\ Len(languageCalls') = Len(languageCalls) + 1
           => /\ languageCalls'[Len(languageCalls')].how = "started"
              /\ languageCalls'[Len(languageCalls')].req = Len(net')

\* a translate call made while a network call for its key is in flight awaits
\* that call and starts none
StillDeduplicates ==
    ( /\ Len(calls') = Len(calls) + 1
      /\ calls'[Len(calls')].how /= "noop"
      /\ \E r \in Unsettled :
             StorageKey(RequestKey(net[r])) = ItemKey(calls'[Len(calls')]) )
    => /\ calls'[Len(calls')].how = "joined"
       /\ calls'[Len(calls')].req \in Unsettled
       /\ net' = net

\* C26: with useLocalCache false no operation reads, writes or removes a
\* storage entry, so every step leaves the storage as it was; translate
\* still shares the network call in flight for its key
C26_DisabledCacheIsUntouched ==
    [][ ~useLocalCache => (storage' = storage /\ NothingRead /\ StillDeduplicates) ]_vars

\* with caching disabled and fresh entries in the storage, two translate
\* calls for a cached text have shared one network call and got its result,
\* clearCache has run, and the storage is as it was at the start
C26_Witness ==
    /\ ~useLocalCache
    /\ storage = SeededStorage
    /\ Len(clears) = 1
    /\ Len(net) = 1
    /\ \E c, d \in 1..Len(calls) :
           /\ calls[c].how = "started"
           /\ calls[d].how = "joined"
           /\ calls[d].req = calls[c].req
           /\ calls[c].done /\ calls[d].done
           /\ calls[d].result = Result(Hola, TRUE, FALSE, NoError)
           /\ ItemKey(calls[d]) \in DOMAIN storage
           /\ storage[ItemKey(calls[d])].value = Salut

(***************************************************************************)
(* SpecInFlight: clearCache among translate and batchTranslate network     *)
(* calls that have not settled, over a storage that holds entries.         *)
(***************************************************************************)
InitInFlight == InitWith(BOOLEAN, {"es"}, {SeededStorage})

WDoTranslate == MoreOps /\ Translate(TextA, NoLang, NoLang, FALSE)

WDoTranslateSettles ==
    \E r \in 1..Len(net), resp \in {OkText(Hola), Rejected("Network timeout")} :
        TranslateSettles(r, resp, TRUE)

WDoBatchTranslate ==
    MoreOps /\ BatchTranslate(<< TranslationItem(1, TextA, NoLang, "de") >>, FALSE, FALSE)

WDoBatchSettles ==
    \E r \in 1..Len(net) :
        \E resp \in {AllTranslated(net[r].payload), Rejected("Network timeout")} :
            BatchSettles(r, resp, TRUE)

WDoClearCache == \E targetLanguage \in {NoLang, "es"} : MoreOps /\ ClearCache(targetLanguage)

NextInFlight ==
    \/ WDoTranslate
    \/ WDoTranslateSettles
    \/ WDoBatchTranslate
    \/ WDoBatchSettles
    \/ WDoClearCache

SpecInFlight == InitInFlight /\ [][NextInFlight]_vars

\* a step in which clearCache runs changes neither the registry nor any
\* network call nor any call that awaits one
ClearKeepsCalls ==
    Len(clears') = Len(clears) + 1
    => /\ pendingRequests' = pendingRequests
       /\ net' = net
       /\ calls' = calls
       /\ batches' = batches

\* the network calls that were unsettled when the clearCache call ran
InFlightAt(clear) == { r \in 1..Len(clear.netBefore) : ~clear.netBefore[r].settled }

\* the network call r was unsettled when some clearCache ran, and settles in
\* this step with a successful response
SettlesAfterClear(r, endpoint) ==
    /\ \E c \in 1..Len(clears) : r \in InFlightAt(clears[c])
    /\ net[r].endpoint = endpoint
    /\ ~net[r].settled
    /\ net'[r].settled
    /\ net'[r].resp.kind = "ok"

\* the step completes every translate call that awaits the network call r
\* with the translation of its response, and releases the key of r
CompletesCalls(r) ==
    /\ RequestKey(net[r]) \notin DOMAIN pendingRequests'
    /\ \A c \in 1..Len(calls) :
           calls[c].req = r
           => /\ calls'[c].done
              /\ calls'[c].result = Result(net'[r].resp.text, TRUE, FALSE, NoError)

\* the step leaves, for every item the batch network call r carried, the
\* translation of its response with the expiry now + cacheTTL
WritesBatch(r) ==
    \A i \in 1..Len(net[r].payload) :
        /\ ItemKey(net[r].payload[i]) \in DOMAIN storage'
        /\ storage'[ItemKey(net[r].payload[i])] =
               Item(net'[r].resp.results[i].text, now + cacheTTL * 1000)

\* the stored translation entries: the keys under the reserved prefix but the
\* one of the language list
TranslationEntries == { k \in DOMAIN storage : HasReservedPrefix(k) /\ k /= LanguagesKey }

\* the last clearCache call took no argument and no network call has been
\* issued since
AfterClearAll ==
    /\ Len(clears) > 0
    /\ clears[Len(clears)].targetLanguage = NoLang
    /\ Len(clears[Len(clears)].netBefore) = Len(net)

\* C27 as stated: clearCache leaves the pending registry unchanged and cancels
\* no network call; a translate or batch network call that was in flight when
\* clearCache ran still writes its successful result to the cache when it
\* settles; so after clearCache() the cache holds a translation entry only if
\* a network call was in flight when it ran
C27_ClearKeepsInFlight ==
    [][ /\ ClearKeepsCalls
        /\ \A r \in 1..Len(net) :
               /\ SettlesAfterClear(r, "translate") => (Overwrites(r) /\ CompletesCalls(r))
               /\ SettlesAfterClear(r, "batch") => WritesBatch(r)
        /\ (AfterClearAll /\ TranslationEntries /= {})'
               => InFlightAt(clears'[Len(clears')]) /= {} ]_vars

\* C27, amended: as stated for a client with caching enabled; with caching
\* disabled clearCache still changes neither the registry nor a network call,
\* and the calls in flight still complete, but nothing is written or removed
C27_ClearKeepsInFlightWhenEnabled ==
    [][ /\ ClearKeepsCalls
        /\ \A r \in 1..Len(net) :
               /\ SettlesAfterClear(r, "translate")
                      => /\ CompletesCalls(r)
                         /\ IF useLocalCache THEN Overwrites(r) ELSE storage' = storage
               /\ SettlesAfterClear(r, "batch")
                      => IF useLocalCache THEN WritesBatch(r) ELSE storage' = storage
        /\ (useLocalCache /\ AfterClearAll /\ TranslationEntries /= {})'
               => InFlightAt(clears'[Len(clears')]) /= {} ]_vars

\* with caching enabled, clearCache() has run while a translate and a batch
\* network call were in flight and the registry held the translate call; both
\* have settled with success since, and the storage, emptied of the library's
\* entries by the call, holds the two translations again
C27_Witness ==
    /\ useLocalCache
    /\ Len(clears) = 1
    /\ clears[1].targetLanguage = NoLang
    /\ clears[1].pendingBefore /= EmptyMap
    /\ DOMAIN clears[1].after = { OtherKey }
    /\ \E r, q \in InFlightAt(clears[1]) :
           /\ net[r].endpoint = "translate" /\ net[r].settled /\ net[r].resp.kind = "ok"
           /\ net[q].endpoint = "batch" /\ net[q].settled /\ net[q].resp.kind = "ok"
           /\ pendingRequests = EmptyMap
           /\ DOMAIN storage = { OtherKey, StorageKey(RequestKey(net[r])),
                                 ItemKey(net[q].payload[1]) }
           /\ storage[StorageKey(RequestKey(net[r]))] = Item(Hola, cacheTTL * 1000)
====
